---- MODULE Spec2Model ----
(***************************************************************************)
(* rsmobiledevice: the DeviceClient<SingleDevice|DeviceGroup> facade       *)
(* (src/src/device.rs, src/src/devices_collection.rs) and the capability   *)
(* clients built on it (src/src/device_syslog, device_afcclient,           *)
(* device_installer).                                                      *)
(*                                                                         *)
(* The specifications of the module:                                       *)
(*   Spec        the device client on the caller's thread, against a       *)
(*               connectivity provider whose attached set changes;         *)
(*   SpecSyslog  the syslog workers of one DeviceSysLog, the command       *)
(*               channel they share and the caller that drives them;       *)
(*   SpecAfc     the path operations of one DeviceAfcClient against the    *)
(*               device's file system;                                     *)
(*   SpecAfcFile the life of a DeviceFile: opened, read, written, dropped; *)
(*   SpecInstall one DeviceInstaller, the staging area and the             *)
(*               installation proxy.                                       *)
(***************************************************************************)
EXTENDS Integers, Sequences, FiniteSets, TLC

(***************************************************************************)
(* Bounds of the model.                                                    *)
(***************************************************************************)
\* UDIDs the provider can ever enumerate are 1..NumDevices.
NumDevices == 2
\* Service handles a caller holds at once.
MaxHandles == 2
\* Logging sessions started on one DeviceSysLog (threads _start_service spawns).
MaxWorkers == 2
\* Commands waiting in the channel at once.
MaxChan == 2
\* Lines in one received chunk.
MaxLines == 2
\* Lines in one received chunk where the threads are followed forever.
LiveLines == 1
\* the longest content of a remote file
MaxBytes == 2
\* the file handles the device has
MaxFds == 1
\* the entries of a package's archive
MaxEntries == 2
\* the characters of a product type's major version
MaxDigits == 2

VARIABLES
  \* ---- connectivity provider (external) ----
  attached,     \* UDIDs currently attached, in enumeration order
  providerUp,   \* whether idevice::get_devices()/get_device() can answer
  \* ---- the caller's DeviceClient ----
  client,       \* the DeviceClient value the caller holds (NoClient: none)
  live,         \* service handles the caller currently owns
  ret,          \* what the last call on the client returned, and what it saw
  \* ---- one DeviceSysLog<SingleDevice> ----
  logFilter,    \* self.filter and self.filter_part
  chan,         \* the unbounded command channel (sender -> shared receiver)
  workers,      \* the threads spawned by _start_service, in spawn order
  emit,         \* the sink call made by the step just taken: <<worker, line>>
  stopSeen,     \* history: the running workers that were Logging when a
                \* stop_logging() was sent
  \* ---- one DeviceAfcClient<SingleDevice> and the device's AFC service ----
  fs,           \* the remote file system: path -> what is there
  fds,          \* the file handles open on the device: handle -> open file
  files,        \* the handles held by the DeviceFile values in scope
  afcRet,       \* what the last AFC call returned, and the requests it sent
  \* ---- one DeviceInstaller<SingleDevice> and the device's staging area ----
  staged,       \* the remote paths the installer's AFC requests have made
  installs,     \* the installs the installation proxy has been asked for
  instRet,      \* what the last installer call returned, and its requests
  \* ---- the DeviceDiagnostic of the caller's client ----
  diagRet,      \* what the last diagnostics call returned, and what it sent
  \* ---- LogFilter::apply, called on its own ----
  applied       \* the last call of LogFilter::apply: its arguments and answer

deviceVars == <<attached, providerUp, client, live, ret>>
syslogVars == <<logFilter, chan, workers, emit, stopSeen>>
afcVars == <<fs, fds, files, afcRet>>
installVars == <<staged, installs, instRet>>
diagVars == <<diagRet>>
filterVars == <<applied>>
vars ==
  <<attached, providerUp, client, live, ret, logFilter, chan, workers, emit,
    stopSeen, fs, fds, files, afcRet, staged, installs, instRet, diagRet,
    applied>>

Udids == 1..NumDevices
\* Positions in a group's snapshot.
Positions == 1..NumDevices
HandleIds == 1..MaxHandles

\* The elements of a sequence (Vec::iter()).
Range(s) == {s[i] : i \in 1..Len(s)}

\* Sequences over S without repetition, of every length: the orders in which
\* the provider can enumerate a set of attached devices.
RECURSIVE Enumerations(_)
Enumerations(S) ==
  IF S = {} THEN {<<>>}
  ELSE {<<>>} \cup UNION {{<<x>> \o t : t \in Enumerations(S \ {x})} : x \in S}

(***************************************************************************)
(* devices_collection.rs: the Devices enum and the two marker types.       *)
(***************************************************************************)
SingleDevice == "SingleDevice"
DeviceGroup == "DeviceGroup"

\* Devices::Single(device)
Single(d) == [variant |-> "Single", devs |-> <<d>>]
\* Devices::Multiple(vec)
Multiple(v) == [variant |-> "Multiple", devs |-> v]

\* Option<T> is a sequence of length at most one.
None == <<>>
Some(x) == <<x>>

\* Devices::get_device(&self) -> Option<&Device>
Devices_get_device(d) == IF d.variant = "Single" THEN Some(d.devs[1]) ELSE None

\* Devices::get_devices(&self) -> Option<&Vec<Device>>
Devices_get_devices(d) == IF d.variant = "Multiple" THEN Some(d.devs) ELSE None

\* struct DeviceClient<T = DeviceGroup> { device: Devices, _p: PhantomData<T> }
DeviceClient(T, d) == [marker |-> T, device |-> d]
NoClient == [marker |-> "none", device |-> [variant |-> "none", devs |-> <<>>]]

(***************************************************************************)
(* The provider (rusty_libimobiledevice::idevice), as the code calls it.   *)
(***************************************************************************)
Ok(v) == [ok |-> TRUE, val |-> v]
Err(e) == [ok |-> FALSE, val |-> e]

\* idevice::get_devices() -> Result<Vec<Device>, IdeviceError>
idevice_get_devices == IF providerUp THEN Ok(attached) ELSE Err("IDeviceError")

\* idevice::get_device(udid) -> Result<Device, IdeviceError>
idevice_get_device(u) ==
  IF providerUp /\ u \in Range(attached) THEN Ok(u) ELSE Err("IDeviceError")

\* unwrap_or_default answering a failed enumeration with the devices that
\* are attached.
unwrap_or_attached(r) == IF r.ok THEN r.val ELSE attached

\* Result<Vec<_>, _>::unwrap_or_default()
unwrap_or_default(r) == IF r.ok THEN r.val ELSE <<>>

(***************************************************************************)
(* device.rs: DeviceClient<SingleDevice>.                                  *)
(***************************************************************************)
\* DeviceClient<SingleDevice>::get_device: self.device.get_device().expect(..)
\* A result of None is the panic path.
get_device(c) == Devices_get_device(c.device)

\* DeviceClient<DeviceGroup>::get_devices: self.device.get_devices().expect(..)
\* A result of None is the panic path.
get_devices(c) == Devices_get_devices(c.device)

\* is_connected looking at the head of the enumeration only.
is_connected_first(c) ==
  LET device == get_device(c)[1]
      connected_devices == unwrap_or_default(idevice_get_devices)
  IN  Len(connected_devices) > 0 /\ connected_devices[1] = device

\* is_connected(&self):
\* connected_devices.iter().any(|d| d.get_udid() == device.get_udid())
is_connected(c) ==
  LET device == get_device(c)[1]
      connected_devices == unwrap_or_default(idevice_get_devices)
  IN  \E i \in 1..Len(connected_devices) : connected_devices[i] = device

\* check_connected answering from the time the client was built.
check_connected_stale(c) == "Ok"

\* check_connected::<E>(): Ok(()) or Err(E::device_not_found())
check_connected(c) ==
  LET device == get_device(c)[1]
      connected_devices == unwrap_or_default(idevice_get_devices)
  IN  IF \E i \in 1..Len(connected_devices) : connected_devices[i] = device
      THEN "Ok"
      ELSE "DeviceNotFound"

(***************************************************************************)
(* device.rs: DeviceClient<DeviceGroup>.                                   *)
(***************************************************************************)
\* are_connected with any() for all().
are_connected_any(c) ==
  LET connected_devices == unwrap_or_default(idevice_get_devices)
      connected_udids == connected_devices
      devs == get_devices(c)[1]
  IN  \E i \in 1..Len(devs) :
        \E j \in 1..Len(connected_udids) : connected_udids[j] = devs[i]

\* self.get_devices().iter().all(|device| connected_udids.contains(..))
are_connected(c) ==
  LET connected_devices == unwrap_or_default(idevice_get_devices)
      connected_udids == connected_devices
      devs == get_devices(c)[1]
  IN  \A i \in 1..Len(devs) :
        \E j \in 1..Len(connected_udids) : connected_udids[j] = devs[i]

\* check_all_connected::<E>(): Ok(()) or Err(E::device_not_found())
check_all_connected(c) ==
  LET connected_devices == unwrap_or_default(idevice_get_devices)
      connected_udids == connected_devices
      devs == get_devices(c)[1]
  IN  IF \A i \in 1..Len(devs) :
           \E j \in 1..Len(connected_udids) : connected_udids[j] = devs[i]
      THEN "Ok"
      ELSE "DeviceNotFound"

\* get_first_device taking the last element of the snapshot.
get_first_device_last(c) ==
  LET devs == get_devices(c)[1] IN
  IF Len(devs) = 0 THEN None
  ELSE Some(DeviceClient(SingleDevice, Single(devs[Len(devs)])))

\* get_first_device(self): self.get_devices().first().map(|d| DeviceClient {
\*   device: Devices::Single(d.to_owned()), _p: PhantomData::<SingleDevice> })
get_first_device(c) ==
  LET devs == get_devices(c)[1] IN
  IF Len(devs) = 0 THEN None
  ELSE Some(DeviceClient(SingleDevice, Single(devs[1])))

(***************************************************************************)
(* Service handles.  AfcClient::start_service / LockdowndClient::new open  *)
(* a new connection on every call; the caller owns the handle and the      *)
(* handle is released when it is dropped.                                  *)
(***************************************************************************)
\* The handle a successful open yields: one no live handle has.
NewHandle(liveSet) ==
  CHOOSE h \in HandleIds \ liveSet : \A k \in HandleIds \ liveSet : h <= k

\* What a factory call did: its result, the handles it returned, the devices
\* it tried to open a service for (in order), the handles it opened and
\* dropped again, and the handles live once it returned.
Outcome(result, handles, opens, released, liveAfter) ==
  [result |-> result, handles |-> handles, opens |-> opens,
   released |-> released, live |-> liveAfter]

\* The single-device factory without its check_connected()? line.
get_dynamic_client_unchecked(c, openOk, liveSet, wrapped) ==
  LET device == get_device(c)[1] IN
  IF openOk
  THEN LET h == NewHandle(liveSet) IN
       Outcome("Ok", <<h>>, <<device>>, {}, liveSet \cup {h})
  ELSE Outcome(wrapped, <<>>, <<device>>, {}, liveSet)

\* self.check_connected()?; let device = self.get_device();
\* <Service>::start_service(device, ..).map_err(E::<wrapped>)
get_dynamic_client(c, openOk, liveSet, wrapped) ==
  IF check_connected(c) # "Ok"
  THEN Outcome("DeviceNotFound", <<>>, <<>>, {}, liveSet)
  ELSE LET device == get_device(c)[1] IN
       IF openOk
       THEN LET h == NewHandle(liveSet) IN
            Outcome("Ok", <<h>>, <<device>>, {}, liveSet \cup {h})
       ELSE Outcome(wrapped, <<>>, <<device>>, {}, liveSet)

\* get_dynamic_afc_client::<E>()
get_dynamic_afc_client(c, openOk, liveSet) ==
  get_dynamic_client(c, openOk, liveSet, "AfcClientError")

\* get_dynamic_lockdownd_client::<E>()
get_dynamic_lockdownd_client(c, openOk, liveSet) ==
  get_dynamic_client(c, openOk, liveSet, "LockdowndError")

RECURSIVE collect_all(_, _, _, _, _, _, _)
\* The fan-out with the short-circuit removed: every device is tried and the
\* handles that did open are returned.
collect_all(devs, i, fails, acc, opens, liveNow, wrapped) ==
  IF i > Len(devs)
  THEN Outcome("Ok", acc, opens, {}, liveNow)
  ELSE IF i \in fails
       THEN collect_all(devs, i + 1, fails, acc, Append(opens, devs[i]),
                        liveNow, wrapped)
       ELSE LET h == NewHandle(liveNow) IN
            collect_all(devs, i + 1, fails, Append(acc, h),
                        Append(opens, devs[i]), liveNow \cup {h}, wrapped)

RECURSIVE collect(_, _, _, _, _, _, _)
\* .iter().map(|device| <open>.map_err(..)).collect::<Result<Vec<_>, E>>():
\* the devices are visited in order; the first Err stops the iteration, the
\* Vec built so far is dropped (its handles released) and the Err returned.
collect(devs, i, fails, acc, opens, liveNow, wrapped) ==
  IF i > Len(devs)
  THEN Outcome("Ok", acc, opens, {}, liveNow)
  ELSE IF i \in fails
       THEN Outcome(wrapped, <<>>, Append(opens, devs[i]), Range(acc),
                    liveNow \ Range(acc))
       ELSE LET h == NewHandle(liveNow) IN
            collect(devs, i + 1, fails, Append(acc, h),
                    Append(opens, devs[i]), liveNow \cup {h}, wrapped)

\* self.check_all_connected()?; self.get_devices().iter().map(..).collect()
get_clients(c, fails, liveSet, wrapped) ==
  IF check_all_connected(c) # "Ok"
  THEN Outcome("DeviceNotFound", <<>>, <<>>, {}, liveSet)
  ELSE collect(get_devices(c)[1], 1, fails, <<>>, <<>>, liveSet, wrapped)

\* get_afc_clients::<E>()
get_afc_clients(c, fails, liveSet) ==
  get_clients(c, fails, liveSet, "AfcClientError")

\* get_lockdownd_clients::<E>()
get_lockdownd_clients(c, fails, liveSet) ==
  get_clients(c, fails, liveSet, "LockdowndError")

(***************************************************************************)
(* device_syslog/filters.rs.  A text is a sequence of atoms (pieces of     *)
(* text); str::contains is containment of a contiguous run of atoms, and   *)
(* a Regex is a literal pattern, for which is_match is containment.        *)
(***************************************************************************)
\* str::contains(needle)
contains(text, needle) ==
  \E i \in 0..(Len(text) - Len(needle)) :
    SubSeq(text, i + 1, i + Len(needle)) = needle

\* Regex::is_match(part), for the literal pattern
is_match(pattern, part) == contains(part, pattern)

\* parts.iter().flatten(): the parts that are Some, in order
RECURSIVE flatten(_)
flatten(parts) ==
  IF parts = <<>> THEN <<>>
  ELSE IF Head(parts) = None THEN flatten(Tail(parts))
       ELSE <<Head(parts)[1]>> \o flatten(Tail(parts))

\* enum LogAction
Continue == "Continue"
Log == "Log"
Break == "Break"

\* enum LogFilter, as [kind, arg]: arg is the pattern, or the set of names
Filter(kind, arg) == [kind |-> kind, arg |-> arg]
Nothing == Filter("Nothing", <<>>)

\* const QUITE: the noisy processes (some of the 75 listed)
QUITE == {<<"Spring", "Board">>, <<"CommCenter">>, <<"MobileMail">>}

\* apply_match_on_part with Exclude comparing whole names.
apply_match_on_part_exact(filter, parts) ==
  LET ps == flatten(parts) IN
  CASE filter.kind = "Match" ->
         IF \E i \in 1..Len(ps) : is_match(filter.arg, ps[i])
         THEN Log ELSE Continue
    [] filter.kind = "Untrigger" ->
         IF \E i \in 1..Len(ps) : is_match(filter.arg, ps[i])
         THEN Break ELSE Log
    [] filter.kind = "Process" ->
         IF \E i \in 1..Len(ps) : \E proc \in filter.arg :
              ~contains(ps[i], proc)
         THEN Continue ELSE Log
    [] filter.kind = "Exclude" ->
         IF \E i \in 1..Len(ps) : \E exproc \in filter.arg :
              ps[i] = exproc
         THEN Continue ELSE Log
    [] filter.kind = "OneShot" ->
         IF \E i \in 1..Len(ps) : is_match(filter.arg, ps[i])
         THEN Break ELSE Continue
    [] filter.kind = "KernelOnly" ->
         IF \E i \in 1..Len(ps) : ~contains(ps[i], <<"kernel">>)
         THEN Continue ELSE Log
    [] filter.kind = "NoKernel" ->
         IF \E i \in 1..Len(ps) : contains(ps[i], <<"kernel">>)
         THEN Continue ELSE Log
    [] filter.kind = "Quiet" ->
         IF \E i \in 1..Len(ps) : ps[i] \in QUITE
         THEN Continue ELSE Log
    [] filter.kind = "Trigger" -> "panic"
    [] filter.kind = "Nothing" -> Log

\* fn apply_match_on_part(filter: &LogFilter, parts: &[Option<&str>])
apply_match_on_part(filter, parts) ==
  LET ps == flatten(parts) IN
  CASE filter.kind = "Match" ->
         IF \E i \in 1..Len(ps) : is_match(filter.arg, ps[i])
         THEN Log ELSE Continue
    [] filter.kind = "Untrigger" ->
         IF \E i \in 1..Len(ps) : is_match(filter.arg, ps[i])
         THEN Break ELSE Log
    [] filter.kind = "Process" ->
         IF \E i \in 1..Len(ps) : \E proc \in filter.arg :
              ~contains(ps[i], proc)
         THEN Continue ELSE Log
    [] filter.kind = "Exclude" ->
         IF \E i \in 1..Len(ps) : \E exproc \in filter.arg :
              contains(ps[i], exproc)
         THEN Continue ELSE Log
    [] filter.kind = "OneShot" ->
         IF \E i \in 1..Len(ps) : is_match(filter.arg, ps[i])
         THEN Break ELSE Continue
    [] filter.kind = "KernelOnly" ->
         IF \E i \in 1..Len(ps) : ~contains(ps[i], <<"kernel">>)
         THEN Continue ELSE Log
    [] filter.kind = "NoKernel" ->
         IF \E i \in 1..Len(ps) : contains(ps[i], <<"kernel">>)
         THEN Continue ELSE Log
    [] filter.kind = "Quiet" ->
         IF \E i \in 1..Len(ps) : ps[i] \in QUITE
         THEN Continue ELSE Log
    [] filter.kind = "Trigger" -> "panic"
    [] filter.kind = "Nothing" -> Log

\* LogFilter::apply(&self, logs_data, filter_part)
apply(filter, logs_data, filter_part) ==
  CASE filter_part = "All" ->
         apply_match_on_part(filter,
           <<Some(logs_data.message), logs_data.severity, logs_data.pid,
             Some(logs_data.device), Some(logs_data.date),
             Some(logs_data.process)>>)
    [] filter_part = "Pid" -> apply_match_on_part(filter, <<logs_data.pid>>)
    [] filter_part = "Date" ->
         apply_match_on_part(filter, <<Some(logs_data.date)>>)
    [] filter_part = "Device" ->
         apply_match_on_part(filter, <<Some(logs_data.device)>>)
    [] filter_part = "Process" ->
         apply_match_on_part(filter, <<Some(logs_data.process)>>)
    [] filter_part = "Message" ->
         apply_match_on_part(filter, <<Some(logs_data.message)>>)
    [] filter_part = "Severity" ->
         apply_match_on_part(filter, <<logs_data.severity>>)

(***************************************************************************)
(* device_syslog/logs_data.rs.  The raw lines the relay sends in the       *)
(* model, and the LogsData the line pattern parses each into.              *)
(***************************************************************************)
\* "Jan  1 00:00:00 deviceX kernel[0] <Notice>: boot complete"
\* "Jan  1 00:00:01 deviceX SpringBoard[58] <Error>: user login"
RawLines == {"kernel-line", "app-line"}

\* LogsData::from(line)
LogsData_from(line) ==
  IF line = "kernel-line"
  THEN [date |-> <<"Jan  1 00:00:00">>, device |-> <<"deviceX">>,
        process |-> <<"kernel">>, pid |-> Some(<<"0">>),
        severity |-> Some(<<"Notice">>),
        message |-> <<"boot", " ", "complete">>]
  ELSE [date |-> <<"Jan  1 00:00:01">>, device |-> <<"deviceX">>,
        process |-> <<"Spring", "Board">>, pid |-> Some(<<"58">>),
        severity |-> Some(<<"Error">>),
        message |-> <<"user", " ", "login">>]

\* String::from_utf8_lossy(&data).split_terminator('\n'): the chunks a
\* receive can return, as sequences of raw lines.
RECURSIVE Chunks(_)
Chunks(n) ==
  IF n = 0 THEN {<<>>}
  ELSE Chunks(n - 1) \cup
       {Append(c, l) : c \in {d \in Chunks(n - 1) : Len(d) = n - 1},
                       l \in RawLines}

\* The (filter, filter_part) pairs set_filter is called with in the model.
FilterConfigs ==
  {[filter |-> Nothing, part |-> "All"],
   [filter |-> Filter("Match", <<"login">>), part |-> "Message"],
   [filter |-> Filter("Untrigger", <<"login">>), part |-> "All"]}

\* The arguments LogFilter::apply is tried with: the patterns and names,
Needles == {<<"kernel">>, <<"Board">>, <<"Spring", "Board">>}

\* the filters,
FiltersTried ==
  {Filter(kind, pattern) : kind \in {"Match", "Trigger", "Untrigger", "OneShot"},
                           pattern \in Needles}
  \cup {Filter(kind, names) : kind \in {"Process", "Exclude"},
                              names \in SUBSET Needles}
  \cup {Filter(kind, <<>>) : kind \in {"Quiet", "KernelOnly", "NoKernel",
                                       "Nothing"}}

\* enum FilterPart
FilterParts ==
  {"Date", "Device", "Process", "Pid", "Severity", "Message", "All"}

\* and the parsed lines: process names that are, hold, or do not hold a
\* needle, with and without the optional fields.
LogsDataTried ==
  [date : {<<"Jan  1 00:00:00">>}, device : {<<"deviceX">>},
   process : {<<"kernel">>, <<"my", "kernel", "ext">>, <<"Spring", "Board">>,
              <<"Spring", "Board", "2">>},
   pid : {None, Some(<<"0">>)},
   severity : {None, Some(<<"Notice">>)},
   message : {<<"boot", " ", "complete">>, <<"kernel", " ", "panic">>}]
  \cup {LogsData_from(line) : line \in RawLines}

\* No call of LogFilter::apply is under way.
NoApplied ==
  [filter |-> Nothing, part |-> "none", data |-> LogsData_from("kernel-line"),
   action |-> "none"]

FilterIdle == applied = NoApplied

(***************************************************************************)
(* device_afcclient: what is on the device and what a call returns.  A     *)
(* path holds nothing, a directory, or a file with its bytes; a handle is  *)
(* closed or open on a path in a mode, at a position.                      *)
(***************************************************************************)
Paths == {"/d", "/d/f"}
Parent(path) == IF path = "/d/f" THEN "/d" ELSE "/"
Bytes == {0, 1}
Contents == UNION {[1..n -> Bytes] : n \in 0..MaxBytes}
FdIds == 1..MaxFds

Absent == [kind |-> "absent", data |-> <<>>]
Directory == [kind |-> "S_IFDIR", data |-> <<>>]
RegularFile(data) == [kind |-> "S_IFREG", data |-> data]

NoFd == [path |-> "", mode |-> "closed", pos |-> 0]
OpenFd(path, mode) == [path |-> path, mode |-> mode, pos |-> 0]

\* AfcOpenOptions: the builder sets each flag to any value.
AfcOpenOptions == [read : BOOLEAN, write : BOOLEAN, append : BOOLEAN,
                   truncate : BOOLEAN, create : BOOLEAN]

\* AfcOpenOptions::new(): Self::default()
AfcOpenOptions_new ==
  [read |-> FALSE, write |-> FALSE, append |-> FALSE, truncate |-> FALSE,
   create |-> FALSE]

\* The options set through the builder: AfcOpenOptions::new().<flag>(true)..
Options(flags) ==
  [read |-> "read" \in flags, write |-> "write" \in flags,
   append |-> "append" \in flags, truncate |-> "truncate" \in flags,
   create |-> "create" \in flags]

\* The option sets the caller opens files with.
OpenOptionsTried ==
  {Options(flags) : flags \in
     {{}, {"read"}, {"write"}, {"append"}, {"create"}, {"truncate"},
      {"read", "write"}, {"read", "append"}, {"write", "create"},
      {"write", "truncate"}}}

NoAfcRet ==
  [op |-> "none", path |-> "", fault |-> "none", result |-> "none",
   sent |-> <<>>, content |-> <<>>, listing |-> {}, flag |-> FALSE,
   handle |-> 0, bytes |-> <<>>, options |-> AfcOpenOptions_new,
   buf_len |-> 0, count |-> 0]

\* No AFC call has been made: nothing on the device yet, no handle open.
AfcIdle ==
  /\ fs = [p \in Paths |-> Absent]
  /\ fds = [h \in FdIds |-> NoFd]
  /\ files = {}
  /\ afcRet = NoAfcRet

\* A reader that holds no zip archive, and one that holds the archive with
\* these entry names.
NotZip == [zip |-> FALSE, names |-> <<>>]
Archive(names) == [zip |-> TRUE, names |-> names]

\* No installer call has returned yet.
NoInstRet ==
  [op |-> "none", package |-> NotZip, fault |-> "none", result |-> "none",
   sent |-> <<>>]

\* No diagnostics call has returned yet.
NoDiagRet ==
  [op |-> "none", arg |-> <<>>, result |-> "none", key |-> "none",
   relays |-> <<>>, cmds |-> <<>>, failed |-> 0]

\* No diagnostics call has been made.
DiagIdle == diagRet = NoDiagRet

\* No install has been asked for.
InstallIdle ==
  /\ staged = {}
  /\ installs = {}
  /\ instRet = NoInstRet


(***************************************************************************)
(* The caller's thread: one call per action.  ret records the call: the    *)
(* operation, its result, the client and the live handles it was made      *)
(* with (before, liveBefore) and the inputs chosen for it.  A provider     *)
(* event clears ret, so a recorded result is always one obtained in the    *)
(* provider state the model is in.  A panic ends the caller.               *)
(***************************************************************************)
NoRet ==
  [op |-> "none", result |-> "none", handles |-> <<>>, opens |-> <<>>,
   released |-> {}, fails |-> {}, before |-> NoClient, liveBefore |-> {}]

Returned(op, result) ==
  [op |-> op, result |-> result, handles |-> <<>>, opens |-> <<>>,
   released |-> {}, fails |-> {}, before |-> client, liveBefore |-> live]

ReturnedOutcome(op, out, fails) ==
  [op |-> op, result |-> out.result, handles |-> out.handles,
   opens |-> out.opens, released |-> out.released, fails |-> fails,
   before |-> client, liveBefore |-> live]

Bool(b) == IF b THEN "true" ELSE "false"

Running == ret.result # "panic"

\* The provider sees a device arrive (EventType::Add).
Attach(u) ==
  /\ u \notin Range(attached)
  /\ attached' = Append(attached, u)
  /\ ret' = IF Running THEN NoRet ELSE ret
  /\ emit' = None
  /\ UNCHANGED <<providerUp, client, live, logFilter, chan, workers, stopSeen>>
  /\ afcRet' = NoAfcRet
  /\ instRet' = NoInstRet
  /\ diagRet' = NoDiagRet
  /\ UNCHANGED <<fs, fds, files, staged, installs, applied>>

\* The provider sees a device leave (EventType::Remove).
Detach(u) ==
  /\ u \in Range(attached)
  /\ attached' = SelectSeq(attached, LAMBDA d : d # u)
  /\ ret' = IF Running THEN NoRet ELSE ret
  /\ emit' = None
  /\ UNCHANGED <<providerUp, client, live, logFilter, chan, workers, stopSeen>>
  /\ afcRet' = NoAfcRet
  /\ instRet' = NoInstRet
  /\ diagRet' = NoDiagRet
  /\ UNCHANGED <<fs, fds, files, staged, installs, applied>>

\* The provider's enumeration starts or stops failing (usbmuxd unreachable).
ProviderToggle ==
  /\ providerUp' = ~providerUp
  /\ ret' = IF Running THEN NoRet ELSE ret
  /\ UNCHANGED <<attached, client, live, syslogVars>>
  /\ UNCHANGED <<afcVars, installVars, diagVars, filterVars>>

\* DeviceClient::new()
New ==
  /\ Running
  /\ LET device == idevice_get_devices IN
     IF device.ok
     THEN /\ client' = DeviceClient(DeviceGroup, Multiple(device.val))
          /\ ret' = Returned("new", "Ok")
     ELSE /\ client' = client
          /\ ret' = Returned("new", "IDeviceError")
  /\ UNCHANGED <<attached, providerUp, live, syslogVars>>
  /\ UNCHANGED <<afcVars, installVars, diagVars, filterVars>>

\* <DeviceClient as TryFrom<String>>::try_from(value).  The impl is written
\* for `DeviceClient`, that is DeviceClient<DeviceGroup> (the default of the
\* type parameter), and `_p: PhantomData` is inferred to that marker.
TryFrom(value) ==
  /\ Running
  /\ LET device == idevice_get_device(value) IN
     IF device.ok
     THEN /\ client' = DeviceClient(DeviceGroup, Single(device.val))
          /\ ret' = Returned("try_from", "Ok")
     ELSE /\ client' = client
          /\ ret' = Returned("try_from", "IDeviceError")
  /\ UNCHANGED <<attached, providerUp, live, syslogVars>>
  /\ UNCHANGED <<afcVars, installVars, diagVars, filterVars>>

\* DeviceClient<DeviceGroup>::get_first_device(self): consumes the group.
GetFirstDevice ==
  /\ Running
  /\ client.marker = DeviceGroup
  /\ IF get_devices(client) = None
     THEN /\ client' = NoClient
          /\ ret' = Returned("get_first_device", "panic")
     ELSE LET first == get_first_device(client) IN
          IF first = None
          THEN /\ client' = NoClient
               /\ ret' = Returned("get_first_device", "None")
          ELSE /\ client' = first[1]
               /\ ret' = Returned("get_first_device", "Some")
  /\ UNCHANGED <<attached, providerUp, live, syslogVars>>
  /\ UNCHANGED <<afcVars, installVars, diagVars, filterVars>>

\* DeviceClient<SingleDevice>::get_device(&self)
GetDevice ==
  /\ Running
  /\ client.marker = SingleDevice
  /\ ret' = Returned("get_device",
                     IF get_device(client) = None THEN "panic" ELSE "Ok")
  /\ UNCHANGED <<attached, providerUp, client, live, syslogVars>>
  /\ UNCHANGED <<afcVars, installVars, diagVars, filterVars>>

\* DeviceClient<DeviceGroup>::get_devices(&self)
GetDevices ==
  /\ Running
  /\ client.marker = DeviceGroup
  /\ ret' = Returned("get_devices",
                     IF get_devices(client) = None THEN "panic" ELSE "Ok")
  /\ UNCHANGED <<attached, providerUp, client, live, syslogVars>>
  /\ UNCHANGED <<afcVars, installVars, diagVars, filterVars>>

\* DeviceClient<SingleDevice>::is_connected(&self)
IsConnected ==
  /\ Running
  /\ client.marker = SingleDevice
  /\ ret' = Returned("is_connected",
                     IF get_device(client) = None THEN "panic"
                     ELSE Bool(is_connected(client)))
  /\ UNCHANGED <<attached, providerUp, client, live, syslogVars>>
  /\ UNCHANGED <<afcVars, installVars, diagVars, filterVars>>

\* DeviceClient<SingleDevice>::check_connected::<E>(&self)
CheckConnected ==
  /\ Running
  /\ client.marker = SingleDevice
  /\ ret' = Returned("check_connected",
                     IF get_device(client) = None THEN "panic"
                     ELSE check_connected(client))
  /\ UNCHANGED <<attached, providerUp, client, live, syslogVars>>
  /\ UNCHANGED <<afcVars, installVars, diagVars, filterVars>>

\* DeviceClient<DeviceGroup>::are_connected(&self)
AreConnected ==
  /\ Running
  /\ client.marker = DeviceGroup
  /\ ret' = Returned("are_connected",
                     IF get_devices(client) = None THEN "panic"
                     ELSE Bool(are_connected(client)))
  /\ UNCHANGED <<attached, providerUp, client, live, syslogVars>>
  /\ UNCHANGED <<afcVars, installVars, diagVars, filterVars>>

\* DeviceClient<DeviceGroup>::check_all_connected::<E>(&self)
CheckAllConnected ==
  /\ Running
  /\ client.marker = DeviceGroup
  /\ ret' = Returned("check_all_connected",
                     IF get_devices(client) = None THEN "panic"
                     ELSE check_all_connected(client))
  /\ UNCHANGED <<attached, providerUp, client, live, syslogVars>>
  /\ UNCHANGED <<afcVars, installVars, diagVars, filterVars>>

\* get_dynamic_afc_client::<E>(&self); openOk: whether the AFC service of the
\* device can be started when the call gets that far.
GetDynamicAfcClient(openOk) ==
  /\ Running
  /\ client.marker = SingleDevice
  /\ Cardinality(live) < MaxHandles
  /\ IF get_device(client) = None
     THEN /\ ret' = Returned("get_dynamic_afc_client", "panic")
          /\ live' = live
     ELSE LET out == get_dynamic_afc_client(client, openOk, live) IN
          /\ ret' = ReturnedOutcome("get_dynamic_afc_client", out,
                                    IF openOk THEN {} ELSE {1})
          /\ live' = out.live
  /\ UNCHANGED <<attached, providerUp, client, syslogVars>>
  /\ UNCHANGED <<afcVars, installVars, diagVars, filterVars>>

\* get_dynamic_lockdownd_client::<E>(&self)
GetDynamicLockdowndClient(openOk) ==
  /\ Running
  /\ client.marker = SingleDevice
  /\ Cardinality(live) < MaxHandles
  /\ IF get_device(client) = None
     THEN /\ ret' = Returned("get_dynamic_lockdownd_client", "panic")
          /\ live' = live
     ELSE LET out == get_dynamic_lockdownd_client(client, openOk, live) IN
          /\ ret' = ReturnedOutcome("get_dynamic_lockdownd_client", out,
                                    IF openOk THEN {} ELSE {1})
          /\ live' = out.live
  /\ UNCHANGED <<attached, providerUp, client, syslogVars>>
  /\ UNCHANGED <<afcVars, installVars, diagVars, filterVars>>

\* get_afc_clients::<E>(&self); fails: the positions of the snapshot whose
\* AFC service cannot be started.
GetAfcClients(fails) ==
  /\ Running
  /\ client.marker = DeviceGroup
  /\ Cardinality(live) + Len(client.device.devs) <= MaxHandles
  /\ IF get_devices(client) = None
     THEN /\ ret' = Returned("get_afc_clients", "panic")
          /\ live' = live
     ELSE LET out == get_afc_clients(client, fails, live) IN
          /\ ret' = ReturnedOutcome("get_afc_clients", out, fails)
          /\ live' = out.live
  /\ UNCHANGED <<attached, providerUp, client, syslogVars>>
  /\ UNCHANGED <<afcVars, installVars, diagVars, filterVars>>

\* get_lockdownd_clients::<E>(&self)
GetLockdowndClients(fails) ==
  /\ Running
  /\ client.marker = DeviceGroup
  /\ Cardinality(live) + Len(client.device.devs) <= MaxHandles
  /\ IF get_devices(client) = None
     THEN /\ ret' = Returned("get_lockdownd_clients", "panic")
          /\ live' = live
     ELSE LET out == get_lockdownd_clients(client, fails, live) IN
          /\ ret' = ReturnedOutcome("get_lockdownd_clients", out, fails)
          /\ live' = out.live
  /\ UNCHANGED <<attached, providerUp, client, syslogVars>>
  /\ UNCHANGED <<afcVars, installVars, diagVars, filterVars>>

\* The caller drops a service handle it owns (Drop of AfcClient /
\* LockdowndClient closes the connection).
DropHandle(h) ==
  /\ Running
  /\ h \in live
  /\ live' = live \ {h}
  /\ ret' = [Returned("drop", "Ok") EXCEPT !.handles = <<h>>]
  /\ UNCHANGED <<attached, providerUp, client, syslogVars>>
  /\ UNCHANGED <<afcVars, installVars, diagVars, filterVars>>

(***************************************************************************)
(* device_syslog/mod.rs: DeviceSysLog<SingleDevice>.  Every log_to_* call  *)
(* sends StartLogging and spawns one thread (_start_service); all threads  *)
(* poll the one receiver they share.  A worker is                          *)
(*   pc      where its thread is: "setup" (before the loop), "poll" (top   *)
(*           of 'log), "recv" (in service.receive), "lines" (in the for    *)
(*           loop over a chunk), "backoff" (in the Err arm: the receive    *)
(*           failed, the thread sleeps and then is at the top of 'log),    *)
(*           "done" (left 'log), "panicked";                               *)
(*   status  current_status;                                               *)
(*   filter, part     the Arc clones of self.filter / self.filter_part;    *)
(*   timeout whether a non-zero timeout_duration was given;                *)
(*   expired whether timeout_start.elapsed() >= timeout_duration by now;   *)
(*   rest    the lines of the received chunk not looked at yet;            *)
(*   tcalls  how often timeout_callback ran.                               *)
(* emit is the call of the sink (callback(logs_data)) made by the step     *)
(* just taken, None when that step made none.                              *)
(***************************************************************************)
StartLogging == "StartLogging"
StopLogging == "StopLogging"

\* let mut current_status = LoggerCommand::StartLogging (the loop entered
\* without waiting for a command)
InitialStatusStart == StartLogging

\* let mut current_status: LoggerCommand = LoggerCommand::StopLogging;
InitialStatus == StopLogging

\* The thread _start_service spawns, with what it captured.
NewWorker(cfg, timeout) ==
  [pc |-> "setup", status |-> InitialStatus, filter |-> cfg.filter,
   part |-> cfg.part, timeout |-> timeout, expired |-> FALSE,
   rest |-> <<>>, tcalls |-> 0]

\* A worker is Logging while its loop runs with current_status StartLogging.
Logging(w) ==
  /\ w.pc \in {"poll", "recv", "lines", "backoff"}
  /\ w.status = StartLogging

\* The thread is about to go through the top of 'log.
AtLoopTop(w) == w.pc \in {"poll", "backoff"}

\* if let Ok(command) = receiver_clone.try_recv() { current_status = command }
try_recv(status, ch) == IF ch = <<>> THEN status ELSE Head(ch)

\* The top of 'log with the match on current_status ahead of the timeout
\* check: a StopLogging ends the thread before the elapsed time is looked at.
dispatch_match_first(w, status) ==
  IF status = StopLogging
  THEN [w EXCEPT !.status = status, !.pc = "done"]
  ELSE IF w.timeout /\ w.expired
       THEN [w EXCEPT !.status = status, !.pc = "done", !.tcalls = @ + 1]
       ELSE [w EXCEPT !.status = status, !.pc = "recv"]

\* The rest of one pass through the top of 'log, after try_recv: the timeout
\* check, then the match on current_status.
dispatch(w, status) ==
  IF w.timeout /\ w.expired
  THEN [w EXCEPT !.status = status, !.pc = "done", !.tcalls = @ + 1]
  ELSE IF status = StartLogging
       THEN [w EXCEPT !.status = status, !.pc = "recv"]
       ELSE [w EXCEPT !.status = status, !.pc = "done"]

\* One iteration of `for line in logs_raw_string.split_terminator('\n')`:
\*   Continue => continue 'log   (back to the top of the outer loop)
\*   Break    => { callback(logs_data); break 'log }
\*   Log      => callback(logs_data)
\* The worker afterwards, and the line the sink was called with, if any.
filter_line(w) ==
  LET line == Head(w.rest)
      action == apply(w.filter, LogsData_from(line), w.part)
      after == IF Tail(w.rest) = <<>> THEN "poll" ELSE "lines"
  IN  CASE action = Continue ->
             [w |-> [w EXCEPT !.rest = <<>>, !.pc = "poll"], sink |-> None]
        [] action = Break ->
             [w |-> [w EXCEPT !.rest = <<>>, !.pc = "done"],
              sink |-> Some(line)]
        [] action = Log ->
             [w |-> [w EXCEPT !.rest = Tail(@), !.pc = after],
              sink |-> Some(line)]

\* set_filter(&mut self, filter, filter_part)
SetFilter(cfg) ==
  /\ logFilter' = cfg
  /\ emit' = None
  /\ UNCHANGED <<deviceVars, chan, workers, stopSeen>>
  /\ UNCHANGED <<afcVars, installVars, diagVars, filterVars>>

\* log_to_custom / log_to_stdout / log_to_file and their timeout variants:
\*   self.devices.check_connected()?;
\*   self.sender.send(LoggerCommand::StartLogging)?;
\*   Ok(self._start_service(callback, timeout_duration, timeout_callback))
\* timeout: whether a non-zero timeout_duration is passed.
LogTo(timeout) ==
  /\ Len(workers) < MaxWorkers
  /\ Len(chan) < MaxChan
  /\ IF check_connected(client) # "Ok"
     THEN /\ ret' = Returned("log_to", "DeviceNotFound")
          /\ UNCHANGED <<chan, workers>>
     ELSE /\ ret' = Returned("log_to", "Ok")
          /\ chan' = Append(chan, StartLogging)
          /\ workers' = Append(workers, NewWorker(logFilter, timeout))
  /\ emit' = None
  /\ UNCHANGED <<attached, providerUp, client, live, logFilter, stopSeen>>
  /\ UNCHANGED <<afcVars, installVars, diagVars, filterVars>>

\* stop_logging(&self): self.sender.send(LoggerCommand::StopLogging)
StopLoggingCall ==
  /\ Len(chan) < MaxChan
  /\ chan' = Append(chan, StopLogging)
  /\ stopSeen' =
       stopSeen \cup {i \in 1..Len(workers) : Logging(workers[i])}
  /\ emit' = None
  /\ UNCHANGED <<deviceVars, logFilter, workers>>
  /\ UNCHANGED <<afcVars, installVars, diagVars, filterVars>>

\* Thread start up to the loop: get_dynamic_lockdownd_client().expect(..),
\* start_service(..).expect(..), ServiceClient::new(..).expect(..).
\* openOk: whether lockdownd and the syslog relay can be opened.
Setup(i, openOk) ==
  /\ i \in 1..Len(workers)
  /\ workers[i].pc = "setup"
  /\ LET opened == get_dynamic_lockdownd_client(client, openOk, {}) IN
     workers' =
       [workers EXCEPT ![i].pc =
          IF opened.result = "Ok" THEN "poll" ELSE "panicked"]
  /\ emit' = None
  /\ UNCHANGED <<deviceVars, logFilter, chan, stopSeen>>
  /\ UNCHANGED <<afcVars, installVars, diagVars, filterVars>>

\* The top of 'log: try_recv, the timeout check, the match on the status.
Poll(i) ==
  /\ i \in 1..Len(workers)
  /\ AtLoopTop(workers[i])
  /\ workers' =
       [workers EXCEPT ![i] = dispatch(@, try_recv(@.status, chan))]
  /\ chan' = IF chan = <<>> THEN chan ELSE Tail(chan)
  /\ emit' = None
  /\ stopSeen' = IF workers'[i].pc = "done" THEN stopSeen \ {i} ELSE stopSeen
  /\ UNCHANGED <<deviceVars, logFilter>>
  /\ UNCHANGED <<afcVars, installVars, diagVars, filterVars>>

\* service.receive(1024) returns Ok(data).
Receive(i, chunk) ==
  /\ i \in 1..Len(workers)
  /\ workers[i].pc = "recv"
  /\ workers' =
       [workers EXCEPT ![i].rest = chunk,
                       ![i].pc = IF chunk = <<>> THEN "poll" ELSE "lines"]
  /\ emit' = None
  /\ UNCHANGED <<deviceVars, logFilter, chan, stopSeen>>
  /\ UNCHANGED <<afcVars, installVars, diagVars, filterVars>>

\* service.receive(1024) returns Err: eprintln!, sleep one second, loop.
ReceiveError(i) ==
  /\ i \in 1..Len(workers)
  /\ workers[i].pc = "recv"
  /\ workers' = [workers EXCEPT ![i].pc = "backoff"]
  /\ emit' = None
  /\ UNCHANGED <<deviceVars, logFilter, chan, stopSeen>>
  /\ UNCHANGED <<afcVars, installVars, diagVars, filterVars>>

\* One line of the chunk goes through the filter.
FilterLine(i) ==
  /\ i \in 1..Len(workers)
  /\ workers[i].pc = "lines"
  /\ LET step == filter_line(workers[i]) IN
     /\ workers' = [workers EXCEPT ![i] = step.w]
     /\ emit' = IF step.sink = None THEN None ELSE Some(<<i, step.sink[1]>>)
     /\ stopSeen' = IF step.w.pc = "done" THEN stopSeen \ {i} ELSE stopSeen
  /\ UNCHANGED <<deviceVars, logFilter, chan>>
  /\ UNCHANGED <<afcVars, installVars, diagVars, filterVars>>

\* Time passes: the worker's timeout_duration has elapsed.
TimeoutElapses(i) ==
  /\ i \in 1..Len(workers)
  /\ workers[i].timeout
  /\ ~workers[i].expired
  /\ workers[i].pc \in {"setup", "poll", "recv", "lines", "backoff"}
  /\ workers' = [workers EXCEPT ![i].expired = TRUE]
  /\ emit' = None
  /\ UNCHANGED <<deviceVars, logFilter, chan, stopSeen>>
  /\ UNCHANGED <<afcVars, installVars, diagVars, filterVars>>

\* DeviceSysLog::new(devices): a fresh channel, LogFilter::Nothing,
\* FilterPart::All, no thread yet.
SyslogIdle ==
  /\ logFilter = [filter |-> Nothing, part |-> "All"]
  /\ chan = <<>>
  /\ workers = <<>>
  /\ emit = None
  /\ stopSeen = {}

\* client.get_device_syslog() on the single-device client of an attached
\* device.
SyslogInit ==
  /\ attached = <<1>>
  /\ providerUp = TRUE
  /\ client = DeviceClient(SingleDevice, Single(1))
  /\ live = {}
  /\ ret = NoRet
  /\ SyslogIdle
  /\ AfcIdle
  /\ InstallIdle
  /\ DiagIdle
  /\ FilterIdle

WorkerIds == 1..MaxWorkers

SyslogNext ==
  \/ Attach(1)
  \/ Detach(1)
  \/ \E cfg \in FilterConfigs : SetFilter(cfg)
  \/ \E timeout \in BOOLEAN : LogTo(timeout)
  \/ StopLoggingCall
  \/ \E i \in WorkerIds, openOk \in BOOLEAN : Setup(i, openOk)
  \/ \E i \in WorkerIds : Poll(i)
  \/ \E i \in WorkerIds, chunk \in Chunks(MaxLines) : Receive(i, chunk)
  \/ \E i \in WorkerIds : ReceiveError(i)
  \/ \E i \in WorkerIds : FilterLine(i)
  \/ \E i \in WorkerIds : TimeoutElapses(i)

SpecSyslog == SyslogInit /\ [][SyslogNext]_vars

\* The sessions of one DeviceSysLog with nothing else going on: the device
\* stays attached, the filter is the default one, no timeout is given, the
\* relay can be opened and every receive returns data.
SyslogLiveNext ==
  \/ LogTo(FALSE)
  \/ StopLoggingCall
  \/ \E i \in WorkerIds : Setup(i, TRUE)
  \/ \E i \in WorkerIds : Poll(i)
  \/ \E i \in WorkerIds, chunk \in Chunks(LiveLines) : Receive(i, chunk)
  \/ \E i \in WorkerIds : FilterLine(i)

\* Every thread keeps running: a worker that can take a step of its loop
\* eventually takes one, and service.receive eventually returns.
SyslogFairness ==
  \A i \in WorkerIds :
    /\ WF_vars(Setup(i, TRUE))
    /\ WF_vars(Poll(i))
    /\ WF_vars(\E chunk \in Chunks(LiveLines) : Receive(i, chunk))
    /\ WF_vars(FilterLine(i))

SpecSyslogLive == SyslogInit /\ [][SyslogLiveNext]_vars /\ SyslogFairness

(***************************************************************************)
(* device_afcclient: the AFC service of the device, as DeviceAfcClient     *)
(* calls it through rusty_libimobiledevice::services::afc::AfcClient.      *)
(* The remote side is R = [fs, fds, sent]: the file system, the open file  *)
(* handles and the requests the running call has sent so far, in order.    *)
(* `up` says                                                               *)
(* whether the request gets through; a request that does not changes       *)
(* nothing on the device.                                                  *)
(***************************************************************************)
\* The names in a directory.
Entries(f, path) == {q \in Paths : Parent(q) = path /\ f[q] # Absent}

\* Whether an entry can be made at path: its parent is a directory.
ParentIsDir(f, path) == Parent(path) = "/" \/ f[Parent(path)] = Directory

Reply(ok, val, R) == [ok |-> ok, val |-> val, R |-> R]
Sent(R, request) == [R EXCEPT !.sent = Append(@, request)]
Refused(R, request) == Reply(FALSE, "AfcError", Sent(R, request))

\* AfcClient::get_file_info(path) -> Result<HashMap<String, String>, AfcError>
afc_get_file_info(R, path, up) ==
  IF up /\ R.fs[path] # Absent
  THEN Reply(TRUE,
             [st_ifmt |-> R.fs[path].kind, st_size |-> Len(R.fs[path].data)],
             Sent(R, "get_file_info"))
  ELSE Refused(R, "get_file_info")

\* AfcClient::read_directory(path) -> Result<Vec<String>, AfcError>
afc_read_directory(R, path, up) ==
  IF up /\ R.fs[path] = Directory
  THEN Reply(TRUE, Entries(R.fs, path), Sent(R, "read_directory"))
  ELSE Refused(R, "read_directory")

\* AfcClient::make_directory(path)
afc_make_directory(R, path, up) ==
  IF up /\ ParentIsDir(R.fs, path) /\ R.fs[path] \in {Absent, Directory}
  THEN Reply(TRUE, "unit",
             Sent([R EXCEPT !.fs[path] = Directory], "make_directory"))
  ELSE Refused(R, "make_directory")

\* AfcClient::remove_path(path): a file, or a directory with nothing in it.
afc_remove_path(R, path, up) ==
  IF up /\ R.fs[path] # Absent /\ Entries(R.fs, path) = {}
  THEN Reply(TRUE, "unit", Sent([R EXCEPT !.fs[path] = Absent], "remove_path"))
  ELSE Refused(R, "remove_path")

\* The handle a successful file_open yields: the lowest one not open.
FreeFds(R) == {h \in FdIds : R.fds[h] = NoFd}
NewFd(R) == CHOOSE h \in FreeFds(R) : \A k \in FreeFds(R) : h <= k

\* AfcClient::file_open(path, mode) -> Result<u64, AfcError>.
\*   ReadOnly                      the file must be there
\*   ReadWrite, Append, ReadAppend the file is created when it is not there
\*   WriteOnly                     created, or cut to length 0
afc_file_open(R, path, mode, up) ==
  LET there == R.fs[path].kind = "S_IFREG"
      creatable == R.fs[path] = Absent /\ ParentIsDir(R.fs, path)
                     /\ mode # "ReadOnly"
      after == IF there /\ mode # "WriteOnly" THEN R.fs[path]
               ELSE RegularFile(<<>>)
  IN  IF up /\ (there \/ creatable)
      THEN Reply(TRUE, NewFd(R),
                 Sent([R EXCEPT !.fs[path] = after,
                                !.fds[NewFd(R)] = OpenFd(path, mode)],
                      "file_open"))
      ELSE Refused(R, "file_open")

\* Whether handle is open on a file that is still there.
Usable(R, handle) ==
  /\ handle \in FdIds
  /\ R.fds[handle] # NoFd
  /\ R.fs[R.fds[handle].path].kind = "S_IFREG"

Min(a, b) == IF a <= b THEN a ELSE b

\* AfcClient::file_read(handle, length) -> Result<Vec<u8>, AfcError>
afc_file_read(R, handle, length, up) ==
  IF up /\ Usable(R, handle) /\ R.fds[handle].mode \notin {"WriteOnly", "Append"}
  THEN LET fd == R.fds[handle]
           data == R.fs[fd.path].data
           upto == Min(Len(data), fd.pos + length)
       IN  Reply(TRUE, SubSeq(data, fd.pos + 1, upto),
                 Sent([R EXCEPT !.fds[handle].pos = Min(Len(data), upto)],
                      "file_read"))
  ELSE Refused(R, "file_read")

\* The bytes of a file after `bytes` is written at offset pos.
Overwrite(data, pos, bytes) ==
  SubSeq(data, 1, Min(pos, Len(data))) \o bytes
    \o SubSeq(data, pos + Len(bytes) + 1, Len(data))

\* AfcClient::file_write(handle, bytes): at the handle's position, at the
\* end of the file for the append modes.
afc_file_write(R, handle, bytes, up) ==
  IF up /\ Usable(R, handle) /\ R.fds[handle].mode # "ReadOnly"
  THEN LET fd == R.fds[handle]
           data == R.fs[fd.path].data
           at == IF fd.mode \in {"Append", "ReadAppend"} THEN Len(data)
                 ELSE fd.pos
       IN  Reply(TRUE, "unit",
                 Sent([R EXCEPT
                         !.fs[fd.path] = RegularFile(Overwrite(data, at, bytes)),
                         !.fds[handle].pos = at + Len(bytes)],
                      "file_write"))
  ELSE Refused(R, "file_write")

\* AfcClient::file_truncate(handle, 0)
afc_file_truncate(R, handle, up) ==
  IF up /\ Usable(R, handle) /\ R.fds[handle].mode # "ReadOnly"
  THEN Reply(TRUE, "unit",
             Sent([R EXCEPT !.fs[R.fds[handle].path] = RegularFile(<<>>),
                            !.fds[handle].pos = 0],
                  "file_truncate"))
  ELSE Refused(R, "file_truncate")

\* AfcClient::file_close(handle)
afc_file_close(R, handle, up) ==
  IF up /\ handle \in FdIds /\ R.fds[handle] # NoFd
  THEN Reply(TRUE, "unit", Sent([R EXCEPT !.fds[handle] = NoFd], "file_close"))
  ELSE Refused(R, "file_close")

(***************************************************************************)
(* device_afcclient/mod.rs: DeviceAfcClient<SingleDevice>.  Every method   *)
(* takes the remote side R it starts from and gives Reply(ok, val, R'):    *)
(* Ok(val) or Err(val), and the remote side it leaves.  fault says which   *)
(* of its requests do not get through:                                     *)
(*   "none"   all do;                                                      *)
(*   "probe"  those made inside path_exists do not;                        *)
(*   "rpc"    those made outside path_exists do not;                       *)
(*   "io"     file_read / file_write / file_truncate do not.               *)
(***************************************************************************)
Faults == {"none", "probe", "rpc", "io"}
probeUp(fault) == fault # "probe"
rpcUp(fault) == fault # "rpc"
ioUp(fault) == fault \notin {"rpc", "io"}

\* `let v = <expr>;` and the rest of the method.
Let(v, rest(_)) == rest(v)

\* `let v = <expr>?;` and the rest of the method: an Err returns at once.
Try(reply, rest(_)) == IF reply.ok THEN rest(reply) ELSE reply

\* impl From<String> for FileType
FileType_from(value) ==
  CASE value = "S_IFDIR" -> "Directory"
    [] value = "S_IFREG" -> "File"
    [] OTHER -> "Unknown"

\* FileInfo::new(&mut info)
FileInfo_new(info) ==
  [st_size |-> info.st_size, st_ifmt |-> FileType_from(info.st_ifmt)]

is_dir(file_info) == file_info.st_ifmt = "Directory"
is_file(file_info) == file_info.st_ifmt = "File"

\* fn afc(&self): self.device.get_dynamic_afc_client::<DeviceAfcClientError>()
\* "Ok", or the error: DeviceNotFound, or AfcError (E::afcclient_error).
afc(up) ==
  Let(get_dynamic_afc_client(client, up, {}).result, LAMBDA result :
    IF result = "AfcClientError" THEN "AfcError" ELSE result)

\* `self.afc()?.<request>`: the request is made only with a client.
WithAfc(up, R, reply) ==
  Let(afc(up), LAMBDA made :
    IF made = "Ok" THEN reply ELSE Reply(FALSE, made, R))

\* get_path_info: self.afc()?.get_file_info(path)? then FileInfo::new
get_path_info(R, path, up) ==
  Try(WithAfc(up, R, afc_get_file_info(R, path, up)), LAMBDA file_info :
    Reply(TRUE, FileInfo_new(file_info.val), file_info.R))


\* path_exists: Ok(self.get_path_info(path).is_ok())
path_exists(R, path, up) ==
  Let(get_path_info(R, path, up), LAMBDA info :
    Reply(TRUE, info.ok, info.R))

\* is_directory
is_directory(R, path, fault) ==
  Let(path_exists(R, path, probeUp(fault)), LAMBDA exists :
    IF ~exists.val THEN Reply(FALSE, "PathNotFound", exists.R)
    ELSE Try(get_path_info(exists.R, path, rpcUp(fault)), LAMBDA info :
           Reply(TRUE, is_dir(info.val), info.R)))

\* list_directory
list_directory(R, path, fault) ==
  Try(get_path_info(R, path, rpcUp(fault)), LAMBDA file_info :
    IF is_dir(file_info.val)
    THEN WithAfc(rpcUp(fault), file_info.R,
                 afc_read_directory(file_info.R, path, rpcUp(fault)))
    ELSE Reply(FALSE, "WrongKind", file_info.R))

\* create_directory without its path_exists check.
create_directory_unchecked(R, path, fault) ==
  WithAfc(rpcUp(fault), R, afc_make_directory(R, path, rpcUp(fault)))

\* create_directory
create_directory(R, path, fault) ==
  Let(path_exists(R, path, probeUp(fault)), LAMBDA exists :
    IF exists.val THEN Reply(FALSE, "AlreadyExists", exists.R)
    ELSE WithAfc(rpcUp(fault), exists.R,
                 afc_make_directory(exists.R, path, rpcUp(fault))))

\* remove_file
remove_file(R, path, fault) ==
  Try(get_path_info(R, path, rpcUp(fault)), LAMBDA file_info :
    IF is_file(file_info.val)
    THEN WithAfc(rpcUp(fault), file_info.R,
                 afc_remove_path(file_info.R, path, rpcUp(fault)))
    ELSE Reply(FALSE, "WrongKind", file_info.R))

\* remove_directory
remove_directory(R, path, fault) ==
  Let(path_exists(R, path, probeUp(fault)), LAMBDA exists :
    IF ~exists.val THEN Reply(FALSE, "PathNotFound", exists.R)
    ELSE
    Try(get_path_info(exists.R, path, rpcUp(fault)), LAMBDA file_info :
    Try(is_directory(file_info.R, path, fault), LAMBDA isdir :
      IF ~isdir.val THEN Reply(FALSE, "WrongKind", isdir.R)
      ELSE
      Try(list_directory(isdir.R, path, fault), LAMBDA listing :
        IF listing.val # {} THEN Reply(FALSE, "DirectoryNotEmpty", listing.R)
        ELSE WithAfc(rpcUp(fault), listing.R,
                     afc_remove_path(listing.R, path, rpcUp(fault)))))))

\* let handle = afc.file_open(path, mode)?; <request on handle>?;
\* afc.file_close(handle)?  -- an error of the request returns before the
\* close.  request(R, handle) is the request made on the open handle.
open_do_close(R, path, mode, fault, request(_, _)) ==
  Try(WithAfc(rpcUp(fault), R, afc_file_open(R, path, mode, rpcUp(fault))),
      LAMBDA opened :
    Try(request(opened.R, opened.val), LAMBDA done :
      Try(afc_file_close(done.R, opened.val, rpcUp(fault)), LAMBDA closed :
        Reply(TRUE, done.val, closed.R))))

\* The checks read_file, append_file and truncate_file start with: the path
\* exists and is a file.  Ok(file_info) or the error.
existing_file(R, path, fault) ==
  Let(path_exists(R, path, probeUp(fault)), LAMBDA exists :
    IF ~exists.val THEN Reply(FALSE, "PathNotFound", exists.R)
    ELSE
    Try(get_path_info(exists.R, path, rpcUp(fault)), LAMBDA file_info :
      IF ~is_file(file_info.val) THEN Reply(FALSE, "WrongKind", file_info.R)
      ELSE file_info))

\* read_file asking for one byte less than st_size.
read_file_short(R, path, fault) ==
  Try(existing_file(R, path, fault), LAMBDA file_info :
    open_do_close(file_info.R, path, "ReadOnly", fault,
      LAMBDA Q, handle :
        afc_file_read(Q, handle, file_info.val.st_size - 1, ioUp(fault))))

\* read_file
read_file(R, path, fault) ==
  Try(existing_file(R, path, fault), LAMBDA file_info :
    open_do_close(file_info.R, path, "ReadOnly", fault,
      LAMBDA Q, handle :
        afc_file_read(Q, handle, file_info.val.st_size, ioUp(fault))))

\* write_file
write_file(R, path, contents, fault) ==
  Let(path_exists(R, path, probeUp(fault)), LAMBDA exists :
    IF exists.val THEN Reply(FALSE, "AlreadyExists", exists.R)
    ELSE open_do_close(exists.R, path, "WriteOnly", fault,
           LAMBDA Q, handle :
             afc_file_write(Q, handle, contents, ioUp(fault))))

\* append_file
append_file(R, path, contents, fault) ==
  Try(existing_file(R, path, fault), LAMBDA file_info :
    open_do_close(file_info.R, path, "Append", fault,
      LAMBDA Q, handle : afc_file_write(Q, handle, contents, ioUp(fault))))

\* truncate_file
truncate_file(R, path, fault) ==
  Try(existing_file(R, path, fault), LAMBDA file_info :
    open_do_close(file_info.R, path, "WriteOnly", fault,
      LAMBDA Q, handle : afc_file_truncate(Q, handle, ioUp(fault))))

\* match (options.append, options.read, options.write) { .. }
open_mode(options) ==
  CASE options.append /\ options.read -> "ReadAppend"
    [] ~options.append /\ options.read /\ options.write -> "ReadWrite"
    [] ~options.append /\ options.read /\ ~options.write -> "ReadOnly"
    [] ~options.append /\ ~options.read /\ options.write -> "WriteOnly"
    [] options.append /\ ~options.read -> "Append"
    [] OTHER -> "InvalidOpenOption"

\* open(path, options) -> Result<DeviceFile, DeviceAfcClientError>
\* Ok(fd): DeviceFile { afc, handle: fd }.
open(R, path, options, fault) ==
  WithAfc(rpcUp(fault), R,
    Let(path_exists(R, path, probeUp(fault)), LAMBDA exists :
      IF ~exists.val /\ ~options.create
      THEN Reply(FALSE, "PathNotFound", exists.R)
      ELSE IF exists.val /\ options.create
      THEN Reply(FALSE, "AlreadyExists", exists.R)
      ELSE IF open_mode(options) = "InvalidOpenOption"
      THEN Reply(FALSE, "InvalidOpenOption", exists.R)
      ELSE
      Try(IF exists.val /\ options.truncate
          THEN truncate_file(exists.R, path, fault)
          ELSE Reply(TRUE, "unit", exists.R),
          LAMBDA truncated :
            afc_file_open(truncated.R, path, open_mode(options),
                          rpcUp(fault)))))

\* impl Read for DeviceFile: read(&mut self, buf)
\*   let to_read = buf.len().min(u32::MIN as usize) as u32;
\*   file_read(handle, to_read) -> Ok(data.len().min(buf.len())) | io error
DeviceFile_read(R, handle, buf_len, fault) ==
  Let(afc_file_read(R, handle, Min(buf_len, 0), ioUp(fault)), LAMBDA data :
    IF data.ok THEN Reply(TRUE, Min(Len(data.val), buf_len), data.R)
    ELSE Reply(FALSE, "io::Error", data.R))

\* impl Write for DeviceFile: write(&mut self, buf)
DeviceFile_write(R, handle, buf, fault) ==
  Let(afc_file_write(R, handle, buf, ioUp(fault)), LAMBDA written :
    IF written.ok THEN Reply(TRUE, Len(buf), written.R)
    ELSE Reply(FALSE, "io::Error", written.R))

\* A DeviceFile that leaves its scope without a request to the device.
DeviceFile_forget(R, handle, fault) == Reply(TRUE, "unit", R)

\* impl Drop for DeviceFile: self.afc.file_close(self.handle); the result is
\* dropped.
DeviceFile_drop(R, handle, fault) ==
  Reply(TRUE, "unit", afc_file_close(R, handle, rpcUp(fault)).R)

(***************************************************************************)
(* The caller of one DeviceAfcClient.  Each action is one call; afcRet     *)
(* records the call, what it returned and the requests it sent.            *)
(***************************************************************************)
StartR == [fs |-> fs, fds |-> fds, sent |-> <<>>]

AfcReturned(op, path, fault, reply) ==
  [NoAfcRet EXCEPT !.op = op, !.path = path, !.fault = fault,
                   !.result = IF reply.ok THEN "Ok" ELSE reply.val,
                   !.sent = reply.R.sent]

\* No file grows beyond MaxBytes.
Bounded(R) == \A p \in Paths : Len(R.fs[p].data) <= MaxBytes

\* The call leaves the remote side as in reply and returns ans; held are
\* the handles of the DeviceFile values in scope afterwards.  Every AfcClient
\* a method made with afc() is dropped when the method returns, which ends
\* its connection to the device and with it any handle still open on it.
AfcCall(reply, ans, held) ==
  /\ ans.fault = "none" \/ check_connected(client) = "Ok"
  /\ Bounded(reply.R)
  /\ fs' = reply.R.fs
  /\ fds' = [h \in FdIds |-> IF h \in held THEN reply.R.fds[h] ELSE NoFd]
  /\ files' = held
  /\ afcRet' = ans
  /\ UNCHANGED <<deviceVars, syslogVars, installVars, diagVars, filterVars>>

\* A call that returns () or an error.
AfcUnit(op, path, fault, reply) ==
  AfcCall(reply, AfcReturned(op, path, fault, reply), files)

\* A call that returns a bool or an error.
AfcFlag(op, path, fault, reply) ==
  AfcCall(reply,
          [AfcReturned(op, path, fault, reply)
             EXCEPT !.flag = reply.ok /\ reply.val],
          files)

\* A call that writes bytes.
AfcWrote(op, path, fault, reply, bytes, handle) ==
  AfcCall(reply,
          [AfcReturned(op, path, fault, reply)
             EXCEPT !.bytes = IF reply.ok THEN bytes ELSE <<>>,
                    !.handle = handle],
          files)

ListDirectory(path, fault) ==
  /\ path \in Paths
  /\ Let(list_directory(StartR, path, fault), LAMBDA reply :
    AfcCall(reply,
            [AfcReturned("list_directory", path, fault, reply)
               EXCEPT !.listing = IF reply.ok THEN reply.val ELSE {}],
            files))

CreateDirectory(path, fault) ==
  /\ path \in Paths
  /\ AfcUnit("create_directory", path, fault,
          create_directory(StartR, path, fault))

RemoveFile(path, fault) ==
  /\ path \in Paths
  /\ AfcUnit("remove_file", path, fault, remove_file(StartR, path, fault))

RemoveDirectory(path, fault) ==
  /\ path \in Paths
  /\ AfcUnit("remove_directory", path, fault,
          remove_directory(StartR, path, fault))

PathExists(path, fault) ==
  /\ path \in Paths
  /\ AfcFlag("path_exists", path, fault,
          path_exists(StartR, path, probeUp(fault)))

IsDirectory(path, fault) ==
  /\ path \in Paths
  /\ AfcFlag("is_directory", path, fault, is_directory(StartR, path, fault))

ReadFile(path, fault) ==
  /\ FreeFds(StartR) # {}
  /\ Let(read_file(StartR, path, fault), LAMBDA reply :
       AfcCall(reply,
               [AfcReturned("read_file", path, fault, reply)
                  EXCEPT !.content = IF reply.ok THEN reply.val ELSE <<>>],
               files))

WriteFile(path, contents, fault) ==
  /\ FreeFds(StartR) # {}
  /\ AfcWrote("write_file", path, fault,
              write_file(StartR, path, contents, fault), contents, 0)

AppendFile(path, contents, fault) ==
  /\ FreeFds(StartR) # {}
  /\ AfcWrote("append_file", path, fault,
              append_file(StartR, path, contents, fault), contents, 0)

TruncateFile(path, fault) ==
  /\ FreeFds(StartR) # {}
  /\ AfcUnit("truncate_file", path, fault, truncate_file(StartR, path, fault))

\* let file = afc_client.open(path, options)?  -- the DeviceFile is in scope
\* from here on.
Open(path, options, fault) ==
  /\ FreeFds(StartR) # {}
  /\ Let(open(StartR, path, options, fault), LAMBDA reply :
       AfcCall(reply,
               [AfcReturned("open", path, fault, reply)
                  EXCEPT !.options = options,
                         !.handle = IF reply.ok THEN reply.val ELSE 0],
               IF reply.ok THEN files \cup {reply.val} ELSE files))

\* file.read(&mut buf) on a DeviceFile in scope
FileRead(handle, buf_len, fault) ==
  /\ handle \in files
  /\ Let(DeviceFile_read(StartR, handle, buf_len, fault), LAMBDA reply :
       AfcCall(reply,
               [AfcReturned("file.read", fds[handle].path, fault, reply)
                  EXCEPT !.handle = handle, !.buf_len = buf_len,
                         !.count = IF reply.ok THEN reply.val ELSE 0],
               files))

\* file.write(&buf) on a DeviceFile in scope
FileWrite(handle, buf, fault) ==
  /\ handle \in files
  /\ AfcWrote("file.write", fds[handle].path, fault,
              DeviceFile_write(StartR, handle, buf, fault), buf, handle)

\* The scope of a DeviceFile ends: drop(file).
FileDrop(handle, fault) ==
  /\ handle \in files
  /\ Let(DeviceFile_drop(StartR, handle, fault), LAMBDA reply :
       AfcCall(reply,
               [AfcReturned("drop", fds[handle].path, fault, reply)
                  EXCEPT !.handle = handle],
               files \ {handle}))

\* client.get_device_afc_client() on the single-device client of an attached
\* device.
AfcInit ==
  /\ attached = <<1>>
  /\ providerUp = TRUE
  /\ client = DeviceClient(SingleDevice, Single(1))
  /\ live = {}
  /\ ret = NoRet
  /\ SyslogIdle
  /\ AfcIdle
  /\ InstallIdle
  /\ DiagIdle
  /\ FilterIdle

AfcNext ==
  \/ Attach(1)
  \/ Detach(1)
  \/ \E path \in Paths, fault \in {"none", "rpc"} : ListDirectory(path, fault)
  \/ \E path \in Paths, fault \in {"none", "probe"} :
       CreateDirectory(path, fault)
  \/ \E path \in Paths, fault \in {"none", "rpc"} : RemoveFile(path, fault)
  \/ \E path \in Paths, fault \in {"none", "probe"} :
       RemoveDirectory(path, fault)
  \/ \E path \in Paths, fault \in {"none", "probe"} : PathExists(path, fault)
  \/ \E path \in Paths, fault \in {"none", "probe"} : IsDirectory(path, fault)
  \/ \E path \in Paths, fault \in {"none", "probe", "io"} :
       ReadFile(path, fault)
  \/ \E path \in Paths, contents \in Contents, fault \in {"none", "probe"} :
       WriteFile(path, contents, fault)
  \/ \E path \in Paths, contents \in Contents, fault \in {"none", "probe"} :
       AppendFile(path, contents, fault)
  \/ \E path \in Paths, fault \in {"none", "probe"} : TruncateFile(path, fault)
  \/ \E path \in Paths, options \in OpenOptionsTried,
        fault \in {"none", "probe"} : Open(path, options, fault)
  \/ \E handle \in FdIds : FileDrop(handle, "none")

SpecAfc == AfcInit /\ [][AfcNext]_vars

\* The life of a DeviceFile: opened, read and written, dropped.
AfcFileNext ==
  \/ Attach(1)
  \/ Detach(1)
  \/ \E path \in Paths, options \in OpenOptionsTried, fault \in Faults :
       Open(path, options, fault)
  \/ \E handle \in FdIds, buf_len \in 0..MaxBytes, fault \in {"none", "io"} :
       FileRead(handle, buf_len, fault)
  \/ \E handle \in FdIds, buf \in Contents, fault \in {"none", "io"} :
       FileWrite(handle, buf, fault)
  \/ \E handle \in FdIds, fault \in {"none", "rpc"} : FileDrop(handle, fault)

SpecAfcFile == AfcInit /\ [][AfcFileNext]_vars

(***************************************************************************)
(* device_installer/mod.rs: DeviceInstaller<SingleDevice>.  A string is    *)
(* the sequence of its pieces, "/" being a piece of its own, so that       *)
(* split("/") and ends_with(..) are computed on it.  A package is what the *)
(* reader holds: not a zip archive, or the names of the archive's entries  *)
(* in order.  The remote side is S = [staged, installs, sent]: the paths   *)
(* that exist under the staging area, the installs the installation proxy  *)
(* was asked for, the requests of the running call.                        *)
(***************************************************************************)
PKG_PATH == <<"PublicStaging">>
IPCC_REMOTE_FOLDER == <<"rsmobiledevice", ".ipcc">>
IPA_REMOTE_FILE == <<"rsmobiledevice", ".ipa">>

\* format!("/{}/{}", a, b)
format2(a, b) == <<"/">> \o a \o <<"/">> \o b

\* format!("/{}/{}/{}", a, b, c)
format3(a, b, c) == <<"/">> \o a \o <<"/">> \o b \o <<"/">> \o c

\* The entry names that occur in the packages tried.
EntryNames ==
  { <<"Payload", "/">>,
    <<"Payload", "/", "Foo", ".app", "/">>,
    <<"Payload", "/", "Foo", ".app", "/", "PlugIns", "/", "X", ".bundle", "/">>,
    <<"Payload", "/", "Carrier", ".bundle", "/", "carrier", ".plist">>,
    <<"docs", "/", "README">> }

\* The packages handed to the installer: a reader that holds no archive, and
\* the archives of up to MaxEntries entries that start with the top directory.
Packages ==
  {NotZip} \cup
  {Archive(names) :
     names \in {n \in UNION {[1..k -> EntryNames] : k \in 0..MaxEntries} :
                 n # <<>> => n[1] = <<"Payload", "/">>}}

\* str::split("/"): the pieces between the separators; a trailing separator
\* leaves an empty last part.
RECURSIVE split(_, _)
split(s, part) ==
  IF s = <<>> THEN <<part>>
  ELSE IF Head(s) = "/" THEN <<part>> \o split(Tail(s), <<>>)
  ELSE split(Tail(s), Append(part, Head(s)))

\* str::ends_with(suffix), suffix being one piece
ends_with(s, suffix) == s # <<>> /\ s[Len(s)] = suffix

\* ZipFile::is_dir(): the name ends with '/'
zip_is_dir(name) == ends_with(name, "/")

\* for path in splitted_file_path { if .. ".bundle" {Ipcc} else if .. ".app"
\* {Ipa} }: the last part that ends with either decides.
RECURSIVE classify(_, _)
classify(parts, package_type) ==
  IF parts = <<>> THEN package_type
  ELSE classify(Tail(parts),
                IF ends_with(Head(parts), ".bundle") THEN "Ipcc"
                ELSE IF ends_with(Head(parts), ".app") THEN "Ipa"
                ELSE package_type)


\* determine_file_package_type: ZipArchive::new(package)?, by_index(1)?, the
\* entry's name split at "/".
determine_file_package_type(package) ==
  IF ~package.zip \/ Len(package.names) < 2 THEN Err("ZipError")
  ELSE Ok(classify(split(package.names[2], <<>>), "Unknown"))

InstallFaults == {"none", "afc", "mkdir", "upload", "proxy", "install"}

\* check_or_create_path(afc_client, path)
check_or_create_path(S, path, fault) ==
  IF path \in S.staged THEN Reply(TRUE, "unit", Sent(S, "get_file_info"))
  ELSE IF fault # "mkdir"
  THEN Reply(TRUE, "unit",
             Sent(Sent([S EXCEPT !.staged = @ \cup {path}], "get_file_info"),
                  "make_directory"))
  ELSE Reply(FALSE, "ErrorCreatingFolder",
             Sent(Sent(S, "get_file_info"), "make_directory"))

\* upload_ipa_package: file_open(.., WriteOnly)?, file_write?, file_close?
upload_ipa_package(S, fault) ==
  IF fault = "upload" THEN Reply(FALSE, "AfcClientError", Sent(S, "file_open"))
  ELSE Reply(TRUE, "unit",
             Sent(Sent(Sent([S EXCEPT !.staged =
                                   @ \cup {format2(PKG_PATH, IPA_REMOTE_FILE)}],
                            "file_open"), "file_write"), "file_close"))

\* upload_ipcc_files: for i in 0..archive.len(): a directory entry is made
\* with make_directory(..)?, a file entry with file_open(..)?, file_write(..)?
RECURSIVE upload_ipcc_files(_, _, _)
upload_ipcc_files(S, names, fault) ==
  IF names = <<>> THEN Reply(TRUE, "unit", S)
  ELSE
  Let(format3(PKG_PATH, IPCC_REMOTE_FOLDER, Head(names)),
      LAMBDA current_file_path :
    IF zip_is_dir(Head(names))
    THEN IF fault = "mkdir"
         THEN Reply(FALSE, "AfcClientError", Sent(S, "make_directory"))
         ELSE upload_ipcc_files(
                Sent([S EXCEPT !.staged = @ \cup {current_file_path}],
                     "make_directory"),
                Tail(names), fault)
    ELSE IF fault = "upload"
         THEN Reply(FALSE, "AfcClientError", Sent(S, "file_open"))
         ELSE upload_ipcc_files(
                Sent(Sent([S EXCEPT !.staged = @ \cup {current_file_path}],
                          "file_open"), "file_write"),
                Tail(names), fault))

\* upload_package
upload_package(S, package_type, package, fault) ==
  CASE package_type = "Ipcc" ->
         Try(check_or_create_path(S, format2(PKG_PATH, IPCC_REMOTE_FOLDER),
                                  fault),
             LAMBDA made : upload_ipcc_files(made.R, package.names, fault))
    [] package_type = "Ipa" -> upload_ipa_package(S, fault)
    [] OTHER -> Reply(TRUE, "unit", S)

\* installation_client.install(format!("/{}/{}", PKG_PATH, IPA_REMOTE_FILE),
\*                             Some(package_options))?
instproxy_install(S, kind, fault) ==
  IF fault = "install"
  THEN Reply(FALSE, "InstallationProxyError", Sent(S, "install"))
  ELSE Reply(TRUE, "unit",
             Sent([S EXCEPT !.installs = @ \cup
                     {[path |-> format2(PKG_PATH, IPA_REMOTE_FILE),
                       kind |-> kind]}],
                  "install"))

\* The end of _install_package: new_instproxy_client(..)?, then the match on
\* package_type.
connect_and_install(S, package_type, fault) ==
  IF fault = "proxy"
  THEN Reply(FALSE, "InstallationProxyError", Sent(S, "new_instproxy_client"))
  ELSE Let(Sent(S, "new_instproxy_client"), LAMBDA T :
         CASE package_type = "Ipcc" -> instproxy_install(T, "CarrierBundle", fault)
           [] package_type = "Ipa" -> instproxy_install(T, "CFBundleIdentifier", fault)
           [] OTHER -> Reply(FALSE, "UnknownPackage", T))

\* _install_package(file, options)
install_package(S, package, fault) ==
  IF get_dynamic_afc_client(client, fault # "afc", {}).result # "Ok"
  THEN Reply(FALSE, get_dynamic_afc_client(client, fault # "afc", {}).result, S)
  ELSE
  Try(check_or_create_path(S, PKG_PATH, fault), LAMBDA made :
    Let(determine_file_package_type(package), LAMBDA package_type :
      IF ~package_type.ok THEN Reply(FALSE, package_type.val, made.R)
      ELSE
      Try(upload_package(made.R, package_type.val, package, fault),
          LAMBDA uploaded :
            connect_and_install(uploaded.R, package_type.val, fault))))

\* install_from_reader(package_file, options)
install_from_reader(S, package, fault) ==
  IF check_connected(client) # "Ok" THEN Reply(FALSE, "DeviceNotFound", S)
  ELSE install_package(S, package, fault)

\* install_from_path(package_path, options): found says whether the file at
\* package_path can be opened.
install_from_path(S, found, package, fault) ==
  IF check_connected(client) # "Ok" THEN Reply(FALSE, "DeviceNotFound", S)
  ELSE IF ~found THEN Reply(FALSE, "IOError", S)
  ELSE install_package(S, package, fault)

\* The call leaves the remote side as in reply.
InstallCall(op, package, fault, reply) ==
  /\ fault = "none" \/ check_connected(client) = "Ok"
  /\ staged' = reply.R.staged
  /\ installs' = reply.R.installs
  /\ instRet' = [op |-> op, package |-> package, fault |-> fault,
                 result |-> IF reply.ok THEN "Ok" ELSE reply.val,
                 sent |-> reply.R.sent]
  /\ UNCHANGED <<deviceVars, syslogVars, afcVars, diagVars, filterVars>>

StartS == [staged |-> staged, installs |-> installs, sent |-> <<>>]

InstallFromReader(package, fault) ==
  /\ package \in Packages
  /\ InstallCall("install_from_reader", package, fault,
                 install_from_reader(StartS, package, fault))

InstallFromPath(found, package, fault) ==
  /\ found \/ (package = NotZip /\ fault = "none")
  /\ InstallCall("install_from_path", package, fault,
                 install_from_path(StartS, found, package, fault))

\* client.get_device_installer() on the single-device client of an attached
\* device.
InstallInit ==
  /\ attached = <<1>>
  /\ providerUp = TRUE
  /\ client = DeviceClient(SingleDevice, Single(1))
  /\ live = {}
  /\ ret = NoRet
  /\ SyslogIdle
  /\ AfcIdle
  /\ InstallIdle
  /\ DiagIdle
  /\ FilterIdle

InstallNext ==
  \/ Attach(1)
  \/ Detach(1)
  \/ \E package \in Packages, fault \in InstallFaults :
       InstallFromReader(package, fault)
  \/ \E found \in BOOLEAN, package \in Packages, fault \in {"none", "proxy"} :
       InstallFromPath(found, package, fault)

SpecInstall == InstallInit /\ [][InstallNext]_vars

\* The state after construction of the process: the provider may already
\* have devices attached; no client exists yet.
DeviceInit ==
  /\ attached \in Enumerations(Udids)
  /\ providerUp = TRUE
  /\ client = NoClient
  /\ live = {}
  /\ ret = NoRet

Init == DeviceInit /\ SyslogIdle /\ AfcIdle /\ InstallIdle /\ DiagIdle
        /\ FilterIdle

Next ==
  \/ \E u \in Udids : Attach(u)
  \/ \E u \in Udids : Detach(u)
  \/ ProviderToggle
  \/ New
  \/ \E value \in Udids : TryFrom(value)
  \/ GetFirstDevice
  \/ GetDevice
  \/ GetDevices
  \/ IsConnected
  \/ CheckConnected
  \/ AreConnected
  \/ CheckAllConnected
  \/ \E openOk \in BOOLEAN : GetDynamicAfcClient(openOk)
  \/ \E openOk \in BOOLEAN : GetDynamicLockdowndClient(openOk)
  \/ \E fails \in SUBSET Positions : GetAfcClients(fails)
  \/ \E fails \in SUBSET Positions : GetLockdowndClients(fails)
  \/ \E h \in HandleIds : DropHandle(h)

Spec == Init /\ [][Next]_vars

\* LogFilter::apply on its own: the caller holds a filter, a filter part
\* and a parsed line,
FilterInit ==
  /\ DeviceInit
  /\ attached = <<>>
  /\ SyslogIdle
  /\ AfcIdle
  /\ InstallIdle
  /\ DiagIdle
  /\ applied \in [filter : FiltersTried, part : FilterParts,
                   data : LogsDataTried, action : {"none"}]

\* and calls filter.apply(&logs_data, &filter_part).
Apply ==
  /\ applied.action = "none"
  /\ applied' = [applied EXCEPT
                   !.action = apply(applied.filter, applied.data, applied.part)]
  /\ UNCHANGED <<deviceVars, syslogVars, afcVars, installVars, diagVars>>

FilterNext == Apply

SpecFilter == FilterInit /\ [][FilterNext]_vars

(***************************************************************************)
(* device_diagnostic/mod.rs: DeviceDiagnostic<SingleDevice> and            *)
(* DeviceDiagnostic<DeviceGroup>.  A product type is the sequence of its   *)
(* pieces: the family name, then one piece per character.                  *)
(***************************************************************************)
\* The characters of the version part of the product types tried.
VersionChars == {"0", "1", "9", "x"}

\* The product types a device answers with: an iPhone with a major version of
\* up to MaxDigits characters, one without the minor version, and iPads.
ProductTypes ==
  {<<"iPhone">> \o major \o <<",", "3">> :
     major \in UNION {[1..n -> VersionChars] : n \in 0..MaxDigits}}
  \cup {<<"iPhone", "1", "0">>, <<"iPad", "1", "0", ",", "3">>,
        <<"iPad", "9", ",", "3">>}

\* str::strip_prefix(prefix), prefix being the family piece
strip_prefix(s, prefix) ==
  IF s # <<>> /\ Head(s) = prefix THEN Some(Tail(s)) ELSE None

\* s.split(",").next(): the pieces before the first ","
RECURSIVE split_next(_)
split_next(s) ==
  IF s = <<>> \/ Head(s) = "," THEN <<>>
  ELSE <<Head(s)>> \o split_next(Tail(s))

\* char::to_digit(10)
to_digit(ch) ==
  CASE ch = "0" -> Some(0) [] ch = "1" -> Some(1) [] ch = "2" -> Some(2)
    [] ch = "3" -> Some(3) [] ch = "4" -> Some(4) [] ch = "5" -> Some(5)
    [] ch = "6" -> Some(6) [] ch = "7" -> Some(7) [] ch = "8" -> Some(8)
    [] ch = "9" -> Some(9) [] OTHER -> None

\* The digits of n read as a decimal number. parse::<u32>() is Err on the
\* empty string and on a character that is no digit; a number of up to
\* MaxDigits digits is below u32::MAX.
RECURSIVE parse_digits(_, _)
parse_digits(n, acc) ==
  IF n = <<>> THEN Ok(acc)
  ELSE IF to_digit(Head(n)) = None THEN Err("ParseIntError")
  ELSE parse_digits(Tail(n), acc * 10 + to_digit(Head(n))[1])

\* n.parse::<u32>()
parse_u32(n) == IF n = <<>> THEN Err("ParseIntError") ELSE parse_digits(n, 0)

\* .strip_prefix("iPhone").map_or(0, |s| s.split(",").next().map_or(0,
\*    |n| n.parse::<u32>().unwrap_or_default()))
product_version_of(product_type) ==
  IF strip_prefix(product_type, "iPhone") = None THEN 0
  ELSE Let(parse_u32(split_next(strip_prefix(product_type, "iPhone")[1])),
           LAMBDA parsed : IF parsed.ok THEN parsed.val ELSE 0)

\* What a diagnostics call did: its result, the key it asked the relay for,
\* the devices a relay was opened for, the devices a power command was sent
\* to, in order, and the position of the relay whose answer was the Err
\* returned (0: none).
DiagReturned(op, arg, result, key, relays, cmds) ==
  [op |-> op, arg |-> arg, result |-> result, key |-> key,
   relays |-> relays, cmds |-> cmds, failed |-> 0]

\* The call returned the Err of the relay at position failed.
FailedAt(answer, failed) == [answer EXCEPT !.failed = failed]

DiagFaults == {"none", "info", "lockdownd", "service", "relay", "query"}

\* get_diagnostic_relay(): get_lockdownd_client()?, start_service(..)?,
\* DiagnosticsRelay::new(device, service)?
get_diagnostic_relay(c, fault) ==
  Let(get_dynamic_lockdownd_client(c, fault # "lockdownd", {}).result,
      LAMBDA lockdownd :
        IF lockdownd # "Ok" THEN Err(lockdownd)
        ELSE IF fault = "service" THEN Err("ServiceError")
        ELSE IF fault = "relay" THEN Err("RelayInitializationError")
        ELSE Ok(get_device(c)[1]))

\* query_ioregentry_key(key)
query_ioregentry_key(c, arg, key, fault) ==
  IF check_connected(c) # "Ok"
  THEN DiagReturned("get_battery_plist", arg, "DeviceNotFound", "none",
                    <<>>, <<>>)
  ELSE Let(get_diagnostic_relay(c, fault), LAMBDA relay :
         IF ~relay.ok
         THEN DiagReturned("get_battery_plist", arg, relay.val, "none",
                           <<>>, <<>>)
         ELSE DiagReturned("get_battery_plist", arg,
                           IF fault = "query" THEN "DiagnosticsRelayError"
                           ELSE "Ok",
                           key, <<relay.val>>, <<>>))

\* get_battery_plist with the boundary one lower.
get_battery_plist_below(c, product_type, fault) ==
  IF check_connected(c) # "Ok" \/ fault = "info"
  THEN DiagReturned("get_battery_plist", product_type, "DeviceNotFound",
                    "none", <<>>, <<>>)
  ELSE IF product_version_of(product_type) < 9
  THEN query_ioregentry_key(c, product_type, "AppleARMPMUCharger", fault)
  ELSE query_ioregentry_key(c, product_type, "AppleSmartBattery", fault)

\* get_battery_plist(): product_type is what get_product_type() answers when
\* it answers.
get_battery_plist(c, product_type, fault) ==
  IF check_connected(c) # "Ok" \/ fault = "info"
  THEN DiagReturned("get_battery_plist", product_type, "DeviceNotFound",
                    "none", <<>>, <<>>)
  ELSE IF product_version_of(product_type) <= 9
  THEN query_ioregentry_key(c, product_type, "AppleARMPMUCharger", fault)
  ELSE query_ioregentry_key(c, product_type, "AppleSmartBattery", fault)

\* The first position of 1..n that is in fails, n + 1 when there is none:
\* where .collect::<Result<Vec<_>, _>>() and `?` in a for loop stop.
FirstFailure(fails, n) ==
  IF \E i \in 1..n : i \in fails
  THEN CHOOSE i \in 1..n : i \in fails /\ \A j \in 1..(i - 1) : j \notin fails
  ELSE n + 1

\* get_diagnostic_relaies(): get_lockdownd_clients()?, then start_service on
\* every client collected, then DiagnosticsRelay::new on every pair collected.
\* fails names, for each kind of request, the positions where it fails.
get_diagnostic_relaies(c, fails) ==
  Let(get_devices(c)[1], LAMBDA devices :
    Let(get_lockdownd_clients(c, fails.lockdownd, {}).result,
        LAMBDA lockdownds :
      IF lockdownds # "Ok" THEN Err(lockdownds)
      ELSE IF FirstFailure(fails.service, Len(devices)) <= Len(devices)
      THEN Err("ServiceError")
      ELSE IF FirstFailure(fails.relay, Len(devices)) <= Len(devices)
      THEN Err("RelayInitializationError")
      ELSE Ok(devices)))

\* devices_power_action sending to every relay, whatever the answers.
devices_power_action_all(c, op, action, fails) ==
  Let(get_diagnostic_relaies(c, fails), LAMBDA relays :
    IF ~relays.ok
    THEN DiagReturned(op, action, relays.val, "none", <<>>, <<>>)
    ELSE Let(FirstFailure(fails.command, Len(relays.val)), LAMBDA failed :
           IF failed <= Len(relays.val)
           THEN FailedAt(DiagReturned(op, action, "DiagnosticsRelayError",
                                      "none", relays.val, relays.val),
                         failed)
           ELSE DiagReturned(op, action, "Ok", "none", relays.val,
                             relays.val)))

\* devices_power_action(action): for relay in relays { relay.<action>()? }
devices_power_action(c, op, action, fails) ==
  Let(get_diagnostic_relaies(c, fails), LAMBDA relays :
    IF ~relays.ok
    THEN DiagReturned(op, action, relays.val, "none", <<>>, <<>>)
    ELSE Let(FirstFailure(fails.command, Len(relays.val)), LAMBDA failed :
           IF failed <= Len(relays.val)
           THEN FailedAt(DiagReturned(op, action, "DiagnosticsRelayError",
                                      "none", relays.val,
                                      SubSeq(relays.val, 1, failed)),
                         failed)
           ELSE DiagReturned(op, action, "Ok", "none", relays.val,
                             relays.val)))

\* sleep_all / restart_all / shutdown_all: check_all_connected()?, then
\* devices_power_action(..)
power_all(c, op, action, fails) ==
  IF check_all_connected(c) # "Ok"
  THEN DiagReturned(op, action, "DeviceNotFound", "none", <<>>, <<>>)
  ELSE devices_power_action(c, op, action, fails)

\* enum DiagnosticBehavior
DiagnosticBehavior ==
  {"WaitUntilDisconnected", "ShowSuccessMessage", "ShowFailureMessage"}

\* A call on the DeviceDiagnostic of the caller's client returns answer.
DiagCall(answer) ==
  /\ diagRet' = answer
  /\ UNCHANGED <<attached, providerUp, client, live, ret, syslogVars,
                 afcVars, installVars, filterVars>>

\* client.get_device_diagnostic().get_battery_plist()
GetBatteryPlist(product_type, fault) ==
  /\ Running
  /\ client.marker = SingleDevice
  /\ fault = "none" \/ check_connected(client) = "Ok"
  /\ DiagCall(get_battery_plist(client, product_type, fault))

\* A group power call with action (a DevicePowerAction, as the sequence of its
\* name and flag): get_devices() on a group client that holds a single
\* device panics.
PowerAll(op, action, fails) ==
  /\ Running
  /\ client.marker = DeviceGroup
  /\ IF get_devices(client) = None
     THEN /\ ret' = Returned(op, "panic")
          /\ diagRet' = DiagReturned(op, action, "panic", "none", <<>>, <<>>)
          /\ UNCHANGED <<attached, providerUp, client, live, syslogVars,
                         afcVars, installVars, filterVars>>
     ELSE DiagCall(power_all(client, op, action, fails))

DiagStages == {"lockdownd", "service", "relay", "command"}

\* The requests of one stage fail for the devices at the positions at.
FailsAt(stage, at) == [s \in DiagStages |-> IF s = stage THEN at ELSE {}]

\* DeviceDiagnostic::new(&client).sleep_all()
SleepAll(stage, at) ==
  /\ stage \in DiagStages
  /\ PowerAll("sleep_all", <<"Sleep">>, FailsAt(stage, at))

\* DeviceDiagnostic::new(&client).restart_all(flag)
RestartAll(flag, stage, at) ==
  /\ flag \in DiagnosticBehavior
  /\ PowerAll("restart_all", <<"Restart", flag>>, FailsAt(stage, at))

\* DeviceDiagnostic::new(&client).shutdown_all(flag)
ShutdownAll(flag, stage, at) ==
  /\ flag \in DiagnosticBehavior
  /\ PowerAll("shutdown_all", <<"Shutdown", flag>>, FailsAt(stage, at))

DiagNext ==
  \/ \E u \in Udids : Attach(u)
  \/ \E u \in Udids : Detach(u)
  \/ New
  \/ \E value \in Udids : TryFrom(value)
  \/ GetFirstDevice
  \/ \E product_type \in ProductTypes, fault \in DiagFaults :
       GetBatteryPlist(product_type, fault)
  \/ \E stage \in DiagStages, at \in SUBSET Positions :
       SleepAll(stage, at)
  \/ \E stage \in DiagStages, at \in SUBSET Positions :
       RestartAll("WaitUntilDisconnected", stage, at)
  \/ \E flag \in {"ShowSuccessMessage", "ShowFailureMessage"},
        stage \in DiagStages, at \in SUBSET Positions :
       ShutdownAll(flag, stage, at)

SpecDiag == Init /\ [][DiagNext]_vars


(***************************************************************************)
(* Claims about the device client (specification Spec).                    *)
(***************************************************************************)
\* The device a single-device client holds.
Held(c) == c.device.devs[1]

\* What a fresh enumeration shows attached: the provider's attached set, and
\* nothing when the enumeration fails.
Enumerated == IF providerUp THEN Range(attached) ELSE {}

\* The error a factory wraps a failed service open into.
Wrapped(op) ==
  IF op \in {"get_dynamic_afc_client", "get_afc_clients"}
  THEN "AfcClientError"
  ELSE "LockdowndError"

\* C1: every DeviceClient reachable through new(), the UDID conversion and
\* get_first_device() has a marker that agrees with the variant it holds
\* (SingleDevice with Single, DeviceGroup with Multiple), a client converted
\* from a UDID is a single-device client, and no accessor reaches its panic
\* path.
C1_MarkerAgreesWithVariant ==
  /\ client # NoClient =>
       \/ client.marker = SingleDevice /\ client.device.variant = "Single"
       \/ client.marker = DeviceGroup /\ client.device.variant = "Multiple"
  /\ (ret.op = "try_from" /\ ret.result = "Ok") =>
       client.marker = SingleDevice
  /\ ret.result # "panic"

\* C2: is_connected() is a pure probe: the call returns true exactly when the
\* held UDID is in the set the provider enumerates at that moment, it leaves
\* the client as it was, and a second call with no provider change in between
\* returns what the first returned.
C2_IsConnectedPureProbe ==
  /\ [](ret.op = "is_connected" =>
          /\ ret.result # "panic"
          /\ ret.result = Bool(Held(ret.before) \in Enumerated)
          /\ client = ret.before)
  /\ [][(ret.op = "is_connected" /\ ret'.op = "is_connected") =>
          (ret'.result = ret.result /\ client' = client)]_vars

\* C2 witness: a single-device client whose device was removed is asked
\* again, without being rebuilt, and answers false.
C2_Witness ==
  /\ ret.op = "is_connected"
  /\ ret.result = "false"
  /\ providerUp
  /\ client.marker = SingleDevice
  /\ Held(client) \notin Range(attached)

\* C3: in every provider state and for every held device, check_connected
\* is Ok exactly when is_connected is true, and is E::device_not_found()
\* otherwise; a recorded result of either agrees with the other one
\* evaluated in the same provider state.
C3_CheckConnectedIffIsConnected ==
  /\ (client.marker = SingleDevice /\ get_device(client) # None) =>
       /\ (check_connected(client) = "Ok") <=> is_connected(client)
       /\ ~is_connected(client) => check_connected(client) = "DeviceNotFound"
  /\ ret.op = "check_connected" =>
       /\ (ret.result = "Ok") <=> is_connected(client)
       /\ ret.result \in {"Ok", "DeviceNotFound"}
  /\ ret.op = "is_connected" =>
       (ret.result = "true") <=> (check_connected(client) = "Ok")

\* C3 witness: check_connected has just failed on a detached device.
C3_Witness ==
  /\ ret.op = "check_connected"
  /\ ret.result = "DeviceNotFound"
  /\ providerUp
  /\ Held(client) \notin Range(attached)

\* C4: on a group snapshot are_connected() is true, and
\* check_all_connected() Ok, exactly when every UDID of the snapshot is in
\* the fresh enumeration; one missing device makes it false
\* (device_not_found) whatever the others are.
C4_AllOrNothing ==
  /\ (ret.op = "are_connected"
      /\ ret.before.device.variant = "Multiple") =>
       ret.result = Bool(Range(ret.before.device.devs) \subseteq Enumerated)
  /\ (ret.op = "check_all_connected"
      /\ ret.before.device.variant = "Multiple") =>
       ret.result =
         IF Range(ret.before.device.devs) \subseteq Enumerated
         THEN "Ok" ELSE "DeviceNotFound"

\* C4 witness: one device of the snapshot is still attached, another is
\* gone, and are_connected() said false.
C4_Witness ==
  /\ ret.op = "are_connected"
  /\ ret.result = "false"
  /\ providerUp
  /\ client.device.variant = "Multiple"
  /\ \E i, j \in 1..Len(client.device.devs) :
       /\ client.device.devs[i] \in Range(attached)
       /\ client.device.devs[j] \notin Range(attached)

\* C5: a single-device factory checks connectivity first.  Held device not in
\* the fresh enumeration: device_not_found, and no service open is attempted.
\* Check passed and the open fails: the wrapped protocol error, nothing is
\* kept.  Otherwise: one handle, which no live handle had.
C5_FactoryChecksFirst ==
  ret.op \in {"get_dynamic_afc_client", "get_dynamic_lockdownd_client"} =>
    LET connected == Held(ret.before) \in Enumerated
    IN  /\ ~connected =>
             /\ ret.result = "DeviceNotFound"
             /\ ret.opens = <<>>
             /\ ret.handles = <<>>
             /\ live = ret.liveBefore
        /\ (connected /\ ret.fails # {}) =>
             /\ ret.result = Wrapped(ret.op)
             /\ ret.opens = <<Held(ret.before)>>
             /\ ret.handles = <<>>
             /\ live = ret.liveBefore
        /\ (connected /\ ret.fails = {}) =>
             /\ ret.result = "Ok"
             /\ ret.opens = <<Held(ret.before)>>
             /\ Len(ret.handles) = 1
             /\ ret.handles[1] \notin ret.liveBefore
             /\ live = ret.liveBefore \cup {ret.handles[1]}

\* C5 witness: the factory is called for a detached device whose service
\* would have opened, and answers device_not_found.
C5_Witness ==
  /\ ret.op = "get_dynamic_afc_client"
  /\ ret.result = "DeviceNotFound"
  /\ ret.fails = {}
  /\ providerUp
  /\ Held(client) \notin Range(attached)

\* C6: a fan-out factory on a connected snapshot returns either one fresh
\* handle per snapshot device, opened in snapshot order, or the error of the
\* first device whose service fails to open: nothing is opened after that
\* device, what was opened before it is released, and no handle is returned.
C6_FanOutFailsFast ==
  (ret.op \in {"get_afc_clients", "get_lockdownd_clients"}
   /\ ret.before.device.variant = "Multiple") =>
    LET snap == ret.before.device.devs
        connected == Range(snap) \subseteq Enumerated
        bad == {i \in 1..Len(snap) : i \in ret.fails}
    IN  /\ ~connected =>
             /\ ret.result = "DeviceNotFound"
             /\ ret.opens = <<>>
             /\ ret.handles = <<>>
             /\ live = ret.liveBefore
        /\ (connected /\ bad = {}) =>
             /\ ret.result = "Ok"
             /\ ret.opens = snap
             /\ Len(ret.handles) = Len(snap)
             /\ Cardinality(Range(ret.handles)) = Len(snap)
             /\ Range(ret.handles) \cap ret.liveBefore = {}
             /\ ret.released = {}
             /\ live = ret.liveBefore \cup Range(ret.handles)
        /\ (connected /\ bad # {}) =>
             LET k == CHOOSE i \in bad : \A j \in bad : i <= j IN
             /\ ret.result = Wrapped(ret.op)
             /\ ret.opens = SubSeq(snap, 1, k)
             /\ ret.handles = <<>>
             /\ Cardinality(ret.released) = k - 1
             /\ ret.released \cap live = {}
             /\ live = ret.liveBefore

\* C6 witness: the second device of a snapshot failed to open after the
\* first had opened: the batch is an error and the first handle is released.
C6_Witness ==
  /\ ret.op = "get_afc_clients"
  /\ ret.result = "AfcClientError"
  /\ Len(ret.opens) = 2
  /\ ret.released # {}
  /\ ret.handles = <<>>

\* C7: new() succeeds whenever the provider answers, also with zero devices,
\* and yields the group of the devices enumerated, in enumeration order;
\* get_first_device() is None on an empty group and otherwise the
\* single-device client of the first device of the snapshot.
C7_NewAndFirstDevice ==
  /\ (ret.op = "new" /\ providerUp) =>
       /\ ret.result = "Ok"
       /\ client = DeviceClient(DeviceGroup, Multiple(attached))
  /\ (ret.op = "get_first_device"
      /\ ret.before.device.variant = "Multiple") =>
       IF Len(ret.before.device.devs) = 0
       THEN ret.result = "None"
       ELSE /\ ret.result = "Some"
            /\ client =
                 DeviceClient(SingleDevice,
                              Single(ret.before.device.devs[1]))

\* C7 witness: get_first_device() answered None: new() had succeeded with no
\* device attached.
C7_Witness ==
  /\ ret.op = "get_first_device"
  /\ ret.result = "None"
  /\ ret.before = DeviceClient(DeviceGroup, Multiple(<<>>))

(***************************************************************************)
(* Claims about the syslog worker (specification SpecSyslog).              *)
(***************************************************************************)
\* The action the worker's filter gives the line it is about to look at.
NextAction(w) == apply(w.filter, LogsData_from(Head(w.rest)), w.part)

\* The step is worker i going through one line of its chunk.
FilterStep(i) ==
  /\ workers[i].pc = "lines"
  /\ \/ workers'[i].pc # "lines"
     \/ workers'[i].rest # workers[i].rest

\* C8: a worker hands a line to the sink only while it is Logging; it
\* becomes Logging only in a step that takes a StartLogging off the channel;
\* when it stops being Logging (StopLogging, a Break, the timeout) its
\* thread is over, and a finished worker never changes again, whatever is
\* sent afterwards.
C8_StoppedIsTerminal ==
  [][/\ Len(workers') >= Len(workers)
     /\ \A i \in 1..Len(workers) :
          /\ (emit' # None /\ emit'[1][1] = i) => Logging(workers[i])
          /\ (~Logging(workers[i]) /\ Logging(workers'[i])) =>
               /\ chan # <<>>
               /\ Head(chan) = StartLogging
               /\ chan' = Tail(chan)
          /\ (Logging(workers[i]) /\ ~Logging(workers'[i])) =>
               workers'[i].pc = "done"
          /\ workers[i].pc = "done" => workers'[i] = workers[i]
     /\ \A i \in (Len(workers) + 1)..Len(workers') : ~Logging(workers'[i])
    ]_vars

\* C8 witness: a worker that was Logging has stopped on a Break, and a
\* StartLogging sent since then waits in the channel.
C8_Witness ==
  \E i \in 1..Len(workers) :
    /\ workers[i].pc = "done"
    /\ workers[i].status = StartLogging
    /\ ~workers[i].expired
    /\ chan # <<>>
    /\ Head(chan) = StartLogging

\* C9: within a chunk every line goes through the filter in order: a Log
\* line is handed to the sink, a Continue line is dropped, and in both cases
\* the lines after it in the chunk are still to be looked at; a Break ends
\* the worker.
C9_ContinueDropsOneLine ==
  [][\A i \in 1..Len(workers) :
       FilterStep(i) =>
         LET w == workers[i]
             line == Head(w.rest)
         IN  /\ NextAction(w) = Log =>
                  /\ emit' = Some(<<i, line>>)
                  /\ workers'[i].rest = Tail(w.rest)
             /\ NextAction(w) = Continue =>
                  /\ emit' = None
                  /\ workers'[i].rest = Tail(w.rest)
             /\ NextAction(w) = Break => workers'[i].pc = "done"
    ]_vars

\* C10: a worker that was Logging when stop_logging() was sent observes the
\* command at its next poll: from its next pass through the top of the loop
\* on it starts no further receive.
C10_StopAtNextPoll ==
  [][\A i \in stopSeen :
       AtLoopTop(workers[i]) => workers'[i].pc # "recv"]_vars

\* C11: the timeout callback runs only at the top of the loop of a worker
\* that was given a non-zero timeout which has elapsed by then; the first
\* such pass runs it, exactly once, and ends the thread, so nothing reaches
\* the sink afterwards.  A worker without a timeout, and a worker that ends
\* on StopLogging or a Break before its timeout has elapsed, never runs it.
C11_TimeoutFiresOnceAtPoll ==
  [][\A i \in 1..Len(workers) :
       LET w == workers[i]
           v == workers'[i]
       IN  /\ v.tcalls # w.tcalls =>
                /\ AtLoopTop(w) /\ w.timeout /\ w.expired
                /\ w.tcalls = 0 /\ v.tcalls = 1
                /\ v.pc = "done"
                /\ emit' = None
           /\ (AtLoopTop(w) /\ v # w /\ w.timeout /\ w.expired) =>
                v.tcalls = 1 /\ v.pc = "done"
           /\ (w.pc # "done" /\ v.pc = "done" /\ ~(w.timeout /\ w.expired)) =>
                v.tcalls = 0
           /\ w.pc = "done" =>
                /\ v = w
                /\ emit' # None => emit'[1][1] # i
    ]_vars

\* C11 witness: two workers have ended, one that was Logging by its timeout
\* callback, the other without it.
C11_Witness ==
  \E i, j \in 1..Len(workers) :
    /\ workers[i].pc = "done" /\ workers[i].status = StartLogging
    /\ workers[i].timeout /\ workers[i].tcalls = 1
    /\ workers[j].pc = "done" /\ workers[j].tcalls = 0

\* C12: a failed receive leaves the worker Logging with nothing handed to
\* the sink; a worker never leaves service.receive by ending its thread;
\* after the back-off it goes through the top of the loop and, with no
\* command waiting and no timeout elapsed, receives again; and if
\* stop_logging() was sent while it was Logging, that pass ends it.
C12_ReceiveErrorRetries ==
  [][\A i \in 1..Len(workers) :
       LET w == workers[i]
           v == workers'[i]
       IN  /\ w.pc = "recv" =>
                /\ v.pc \in {"recv", "lines", "poll", "backoff"}
                /\ v.status = StartLogging
           /\ (w.pc = "recv" /\ v.pc = "backoff") =>
                /\ Logging(v)
                /\ emit' = None
                /\ v.rest = <<>>
                /\ v.tcalls = w.tcalls
           /\ (w.pc = "backoff" /\ v # w /\ v.expired = w.expired) =>
                /\ (chan = <<>> /\ ~(w.timeout /\ w.expired)) => v.pc = "recv"
                /\ i \in stopSeen => v.pc = "done"
    ]_vars

(***************************************************************************)
(* Claims about the AFC client (specifications SpecAfc and SpecAfcFile).   *)
(***************************************************************************)
\* C13: a DeviceFile in scope keeps its handle open on the device and no
\* call sends a file_close for it; it leaves its scope only by being
\* dropped, and that drop sends exactly one file_close, for its handle,
\* after which the handle is closed -- also after reads or writes on it
\* that failed.  open() hands out a handle no DeviceFile in scope holds.
C13_ClosedOnceAtDrop ==
  [][/\ \A h \in files :
          IF h \in files'
          THEN /\ fds'[h] # NoFd
               /\ fds'[h].path = fds[h].path
               /\ afcRet'.handle = h =>
                    \A k \in 1..Len(afcRet'.sent) :
                      afcRet'.sent[k] # "file_close"
          ELSE /\ afcRet'.op = "drop"
               /\ afcRet'.handle = h
               /\ afcRet'.sent = <<"file_close">>
               /\ fds'[h] = NoFd
     /\ \A h \in files' \ files :
          /\ afcRet'.op = "open" /\ afcRet'.result = "Ok"
          /\ afcRet'.handle = h
          /\ fds[h] = NoFd /\ fds'[h] # NoFd
    ]_vars

\* C13 witness: a DeviceFile that was written to has just been dropped; its
\* handle is closed and no DeviceFile is in scope.
C13_Witness ==
  /\ afcRet.op = "drop"
  /\ afcRet.sent = <<"file_close">>
  /\ files = {}
  /\ fds[afcRet.handle] = NoFd
  /\ fs[afcRet.path].data # <<>>

\* The device of the client is attached: self.afc() gives a client.
AfcConnected == check_connected(client) = "Ok"

\* The call just made was made with the device attached and all of its
\* requests got through.
CleanCall == AfcConnected /\ afcRet.fault = "none"

\* The request names in the order the call just made sent them.
SentAfter == {afcRet'.sent[k] : k \in 1..Len(afcRet'.sent)}

\* C14: open(path, options) with read, write, append, truncate and create
\* all false answers InvalidOpenOption, for a path that exists and for one
\* that does not.
C14_AllFalseIsInvalidOpenOption ==
  (/\ afcRet.op = "open"
   /\ afcRet.options = AfcOpenOptions_new
   /\ CleanCall)
    => afcRet.result = "InvalidOpenOption"

\* The operations that need the path to exist.
NeedsPath(answer) ==
  \/ answer.op \in {"list_directory", "remove_file", "remove_directory",
                    "is_directory", "read_file", "append_file",
                    "truncate_file"}
  \/ answer.op = "open" /\ ~answer.options.create

\* C15: on a connected device, each operation that needs an existing path,
\* called on a path that is not there, answers PathNotFound and leaves the
\* remote file system as it was.
C15_MissingPathIsPathNotFound ==
  [][(/\ NeedsPath(afcRet')
      /\ fs[afcRet'.path] = Absent
      /\ AfcConnected
      /\ afcRet'.fault = "none")
       => (afcRet'.result = "PathNotFound" /\ fs' = fs)]_vars

\* The create-style writes.
CreatesPath(answer) ==
  \/ answer.op = "write_file"
  \/ answer.op = "open" /\ answer.options.create

\* C16: write_file, and open with create set, on a path that is there
\* already: no file_open, file_write or file_truncate is sent and what is on
\* the device stays as it was; when the device is attached and the requests
\* get through the answer is AlreadyExists.
C16_CreateOnExistingLeavesContent ==
  [][(CreatesPath(afcRet') /\ fs[afcRet'.path] # Absent)
       => /\ fs' = fs
          /\ SentAfter \cap {"file_open", "file_write", "file_truncate"} = {}
          /\ (AfcConnected /\ afcRet'.fault = "none")
               => afcRet'.result = "AlreadyExists"]_vars

\* C17: read_file(p) called right after a write_file(p, B) that returned
\* Ok: every content it returns is B, and it returns one when its requests
\* get through.
C17_WriteThenReadRoundTrip ==
  [][(/\ afcRet.op = "write_file" /\ afcRet.result = "Ok"
      /\ afcRet'.op = "read_file" /\ afcRet'.path = afcRet.path)
       => /\ afcRet'.result = "Ok" => afcRet'.content = afcRet.bytes
          /\ afcRet'.fault = "none" => afcRet'.result = "Ok"]_vars

\* C17 witness: a read_file has returned MaxBytes bytes that are not all the
\* same.
C17_Witness ==
  /\ afcRet.op = "read_file"
  /\ afcRet.result = "Ok"
  /\ Len(afcRet.content) = MaxBytes
  /\ afcRet.content[1] # afcRet.content[MaxBytes]
  /\ fs[afcRet.path] = RegularFile(afcRet.content)

\* C18: with the device attached and the requests getting through,
\* create_directory on a path that is there answers AlreadyExists,
\* remove_directory on a directory with nothing in it returns Ok and the
\* directory is gone, remove_directory on a directory with something in it
\* answers DirectoryNotEmpty; and no remove_directory on a directory with
\* something in it, and no create_directory on a path that is there,
\* changes the remote file system.
C18_DirectoryPreconditions ==
  [][LET p == afcRet'.path
         clean == AfcConnected /\ afcRet'.fault = "none"
     IN  /\ (afcRet'.op = "create_directory" /\ fs[p] # Absent) =>
              /\ fs' = fs
              /\ clean => afcRet'.result = "AlreadyExists"
         /\ (afcRet'.op = "remove_directory" /\ fs[p] = Directory
                /\ Entries(fs, p) = {} /\ clean) =>
              /\ afcRet'.result = "Ok"
              /\ fs' = [fs EXCEPT ![p] = Absent]
         /\ (afcRet'.op = "remove_directory" /\ fs[p] = Directory
                /\ Entries(fs, p) # {}) =>
              /\ fs' = fs
              /\ clean => afcRet'.result = "DirectoryNotEmpty"
    ]_vars

\* C18 witness: remove_directory has just refused a directory that has an
\* entry.
C18_Witness ==
  /\ afcRet.op = "remove_directory"
  /\ afcRet.result = "DirectoryNotEmpty"
  /\ fs[afcRet.path] = Directory
  /\ Entries(fs, afcRet.path) # {}

\* C19: a call made while the device is not attached, or whose existence
\* probe does not get through, answers with that failure, DeviceNotFound or
\* AfcError: path_exists does not answer Ok(false), no operation answers
\* PathNotFound, and write_file / create_directory send nothing that
\* writes.
C19_ProbeFailureSurfaces ==
  (afcRet.op \notin {"none", "drop"}
     /\ (~AfcConnected \/ afcRet.fault = "probe"))
    => /\ afcRet.result \in {"DeviceNotFound", "AfcError"}
       /\ \A k \in 1..Len(afcRet.sent) :
            afcRet.sent[k] \notin {"file_open", "file_write", "make_directory"}

\* The name has a component (a stretch between two "/", or the start, or the
\* end) whose last piece is suffix.
HasComponentEnding(name, suffix) ==
  \E k \in 1..Len(name) :
    name[k] = suffix /\ (k = Len(name) \/ name[k + 1] = "/")

\* The installer call just made got as far as classifying an archive with a
\* second entry: the device was attached, the file was there and the AFC
\* requests before it went through.
Classified ==
  /\ instRet'.op # "none"
  /\ instRet'.result \notin {"DeviceNotFound", "IOError"}
  /\ instRet'.fault \in {"none", "proxy", "install"}
  /\ instRet'.package.zip
  /\ Len(instRet'.package.names) >= 2

SecondEntry == instRet'.package.names[2]

InstallSent == {instRet'.sent[k] : k \in 1..Len(instRet'.sent)}

\* C20: the package is classified by the second entry of its archive: a
\* component ending in .app (and none in .bundle) makes it an IPA, which is
\* uploaded as the one remote file; a component ending in .bundle (and none
\* in .app) makes it an IPCC, which is uploaded as a folder; with neither the
\* call returns UnknownPackage whether or not the installation proxy can be
\* reached, nothing of the package is uploaded and no install is asked for.
C20_ClassifiesBySecondEntry ==
  [][Classified =>
       /\ (HasComponentEnding(SecondEntry, ".app")
             /\ ~HasComponentEnding(SecondEntry, ".bundle"))
            => /\ format2(PKG_PATH, IPA_REMOTE_FILE) \in staged'
               /\ instRet'.result = "Ok"
                    => \E i \in installs' : i.kind = "CFBundleIdentifier"
       /\ (HasComponentEnding(SecondEntry, ".bundle")
             /\ ~HasComponentEnding(SecondEntry, ".app"))
            => /\ format2(PKG_PATH, IPCC_REMOTE_FOLDER) \in staged'
               /\ instRet'.result = "Ok"
                    => \E i \in installs' : i.kind = "CarrierBundle"
       /\ (~HasComponentEnding(SecondEntry, ".app")
             /\ ~HasComponentEnding(SecondEntry, ".bundle"))
            => /\ instRet'.result = "UnknownPackage"
               /\ staged' \subseteq staged \cup {PKG_PATH}
               /\ InstallSent \cap {"file_open", "file_write", "install"} = {}
               /\ installs' = installs]_vars

(***************************************************************************)
(* Claims about the diagnostics client (specification SpecDiag).           *)
(***************************************************************************)
\* The largest major version looked at.
MaxVersion == 99

DigitChars == <<"0", "1", "2", "3", "4", "5", "6", "7", "8", "9">>

\* The decimal numeral of n, n <= MaxVersion.
Decimal(n) ==
  IF n < 10 THEN <<DigitChars[n + 1]>>
  ELSE <<DigitChars[(n \div 10) + 1], DigitChars[(n % 10) + 1]>>

\* product_type is "iPhone", the numeral of n, and then nothing or a comma and
\* more.
IsIPhoneOfVersion(product_type, n) ==
  /\ Len(product_type) >= 1 + Len(Decimal(n))
  /\ SubSeq(product_type, 1, 1 + Len(Decimal(n))) = <<"iPhone">> \o Decimal(n)
  /\ (Len(product_type) = 1 + Len(Decimal(n))
        \/ product_type[2 + Len(Decimal(n))] = ",")

\* C21: get_battery_plist asks for AppleARMPMUCharger on every iPhone whose
\* major version is at most 9 and for AppleSmartBattery on every iPhone whose
\* major version is 10 or more.
C21_BatteryKeyByMajorVersion ==
  \A n \in 0..MaxVersion :
    (diagRet.op = "get_battery_plist" /\ diagRet.key # "none"
       /\ IsIPhoneOfVersion(diagRet.arg, n))
      => diagRet.key = IF n <= 9 THEN "AppleARMPMUCharger"
                       ELSE "AppleSmartBattery"

\* An iPhone of major version 9 was asked for its battery.
C21_Witness ==
  /\ diagRet.op = "get_battery_plist"
  /\ diagRet.arg = <<"iPhone", "9", ",", "3">>
  /\ diagRet.key = "AppleARMPMUCharger"
  /\ diagRet.result = "Ok"

PowerOps == {"sleep_all", "restart_all", "shutdown_all"}

\* The step is a group power call that returned (not by a panic).
PowerStep ==
  /\ diagRet' # diagRet
  /\ diagRet'.op \in PowerOps
  /\ diagRet'.result # "panic"

\* C30: a group power call sends a command only when every device of the
\* snapshot is attached and a relay was opened for each of them; commands go
\* to the devices in snapshot order, and the first relay that answers with an
\* error is the last one that got a command.
C30_GroupPowerAllOrNothingThenFirstFailure ==
  [][PowerStep =>
       LET devs == client.device.devs IN
       /\ diagRet'.cmds # <<>>
            => /\ \A i \in 1..Len(devs) : devs[i] \in Range(attached)
               /\ diagRet'.relays = devs
       /\ diagRet'.failed = 0
            => diagRet'.cmds \in {<<>>, devs}
       /\ diagRet'.failed # 0
            => /\ diagRet'.cmds = SubSeq(devs, 1, diagRet'.failed)
               /\ diagRet'.result # "Ok"
       /\ diagRet'.result = "Ok" => diagRet'.cmds = devs]_vars

\* A group of two devices was sent the command and the first one failed.
C30_Witness ==
  /\ diagRet.op \in PowerOps
  /\ Len(client.device.devs) = 2
  /\ diagRet.failed = 1
  /\ diagRet.cmds = <<client.device.devs[1]>>

(***************************************************************************)
(* Claims about LogFilter::apply (specification SpecFilter).               *)
(***************************************************************************)
\* The field of the parsed line a filter part names (None: the line has no
\* such field, or the part is All).
FieldOf(data, part) ==
  CASE part = "Date" -> Some(data.date)
    [] part = "Device" -> Some(data.device)
    [] part = "Process" -> Some(data.process)
    [] part = "Message" -> Some(data.message)
    [] part = "Pid" -> data.pid
    [] part = "Severity" -> data.severity
    [] OTHER -> None

\* What the filter table gives for the filter on the field.
TableAction(filter, field) ==
  CASE filter.kind = "Match" ->
         IF contains(field, filter.arg) THEN Log ELSE Continue
    [] filter.kind = "Untrigger" ->
         IF contains(field, filter.arg) THEN Break ELSE Log
    [] filter.kind = "OneShot" ->
         IF contains(field, filter.arg) THEN Break ELSE Continue
    [] filter.kind = "Process" ->
         IF \A name \in filter.arg : contains(field, name)
         THEN Log ELSE Continue
    [] filter.kind = "Exclude" ->
         IF \E name \in filter.arg : contains(field, name)
         THEN Continue ELSE Log
    [] filter.kind = "Quiet" -> IF field \in QUITE THEN Continue ELSE Log
    [] filter.kind = "KernelOnly" ->
         IF contains(field, <<"kernel">>) THEN Log ELSE Continue
    [] filter.kind = "NoKernel" ->
         IF contains(field, <<"kernel">>) THEN Continue ELSE Log
    [] filter.kind = "Nothing" -> Log

\* C22: on a single field that the line has, every filter of the table
\* answers as the table says.
C22_FilterTableOnSingleField ==
  (applied.action # "none" /\ applied.filter.kind # "Trigger"
     /\ FieldOf(applied.data, applied.part) # None)
    => applied.action =
         TableAction(applied.filter, FieldOf(applied.data, applied.part)[1])

\* Exclude was applied to a process name that holds an excluded name and
\* more.
C22_Witness ==
  /\ applied.filter.kind = "Exclude"
  /\ applied.filter.arg = {<<"kernel">>}
  /\ applied.part = "Process"
  /\ applied.data.process = <<"my", "kernel", "ext">>
  /\ applied.action = Continue

\* C23: the parsed kernel line is let through by KernelOnly and dropped by
\* NoKernel, under filter part All and under filter part Process.
C23_KernelLineUnderAllAndProcess ==
  (applied.action # "none" /\ applied.data = LogsData_from("kernel-line")
     /\ applied.part \in {"All", "Process"})
    => /\ applied.filter.kind = "KernelOnly" => applied.action = Log
       /\ applied.filter.kind = "NoKernel" => applied.action = Continue

(***************************************************************************)
(* Claims about the sessions of one DeviceSysLog (specification            *)
(* SpecSyslog).                                                            *)
(***************************************************************************)
\* C24: a worker whose thread reached its loop ends only after it was
\* Logging: the step that ends it (other than its own timeout having
\* elapsed) finds it Logging, whatever was sent on the channel before its
\* session was started and whatever other sessions take from it.
C24_WorkerLogsBeforeItStops ==
  [][\A i \in 1..Len(workers) :
       (workers[i].pc # "done" /\ workers'[i].pc = "done"
          /\ ~(workers[i].timeout /\ workers[i].expired))
         => Logging(workers[i])]_vars

\* C25: every worker that was Logging when a stop_logging() was sent
\* eventually ends, when every thread keeps running and every receive
\* returns.
C25_StopReachesEveryLoggingWorker ==
  \A i \in WorkerIds : (i \in stopSeen) ~> (i \notin stopSeen)

(***************************************************************************)
(* Claims about the path handed to the installation proxy (specification   *)
(* SpecInstall).                                                           *)
(***************************************************************************)
\* The remote path upload_package leaves a package of this kind at.
UploadedTo(kind) ==
  IF kind = "CarrierBundle" THEN format2(PKG_PATH, IPCC_REMOTE_FOLDER)
  ELSE format2(PKG_PATH, IPA_REMOTE_FILE)

\* C26: every install the installation proxy was asked for names the remote
\* path its package was uploaded to, the file rsmobiledevice.ipa for an IPA
\* and the folder rsmobiledevice.ipcc for an IPCC, and that path exists on
\* the device by then.
C26_InstallsTheUploadedPath ==
  \A i \in installs : i.path = UploadedTo(i.kind) /\ i.path \in staged

(***************************************************************************)
(* Claims about the DeviceFile values in scope (specification SpecAfcFile). *)
(***************************************************************************)
\* Whether handle is open for reading on a file with bytes behind its
\* position.
HasUnread(handle) ==
  /\ handle \in files
  /\ Usable(StartR, handle)
  /\ fds[handle].mode \notin {"WriteOnly", "Append"}
  /\ fds[handle].pos < Len(fs[fds[handle].path].data)

\* C27: a file.read(&mut buf) with a buffer that is not empty, on a handle
\* open for reading with unread bytes and with its request getting through,
\* returns Ok(n) with n > 0 and moves the handle's position by n.
C27_ReadReturnsUnreadBytes ==
  [][(/\ afcRet'.op = "file.read"
      /\ afcRet'.fault = "none"
      /\ afcRet'.buf_len > 0
      /\ HasUnread(afcRet'.handle))
       => /\ afcRet'.result = "Ok"
          /\ afcRet'.count > 0
          /\ fds'[afcRet'.handle].pos = fds[afcRet'.handle].pos + afcRet'.count]_vars

(***************************************************************************)
(* Claims about the handles a library operation opens (specifications      *)
(* SpecAfc and SpecInstall).                                               *)
(***************************************************************************)
\* The i-th request of a call opened a handle: it is a file_open that the
\* call went on from (a refused file_open returns at once with `?`).
OpenedAt(sent, i) == sent[i] = "file_open" /\ i < Len(sent)

\* The handle opened by the i-th request is closed before the call opens
\* another one or returns.
ClosedAfter(sent, i) ==
  \E j \in (i + 1)..Len(sent) :
    /\ sent[j] = "file_close"
    /\ \A k \in (i + 1)..(j - 1) : sent[k] # "file_open"

ClosesWhatItOpens(sent) ==
  \A i \in 1..Len(sent) : OpenedAt(sent, i) => ClosedAfter(sent, i)

\* C28: read_file, write_file, append_file, truncate_file and the installer's
\* uploads send a file_close for every handle they opened before they
\* return, whether they return Ok or an error.
C28_OpenedHandlesAreClosed ==
  /\ afcRet.op \in {"read_file", "write_file", "append_file", "truncate_file"}
       => ClosesWhatItOpens(afcRet.sent)
  /\ instRet.op \in {"install_from_reader", "install_from_path"}
       => ClosesWhatItOpens(instRet.sent)

(***************************************************************************)
(* Claims about the probes while the provider's enumeration fails          *)
(* (specification Spec).                                                   *)
(***************************************************************************)
\* C29: a probe made while idevice::get_devices() fails sees no device
\* attached: is_connected() returns false, check_connected() returns
\* device_not_found, and on a client that holds a group
\* check_all_connected() returns device_not_found for a group with a device
\* in it and Ok for the empty group (are_connected() false and true); none
\* of them panics or returns the provider's error.
C29_FailedEnumerationIsEmpty ==
  ~providerUp =>
    /\ ret.op = "is_connected" => ret.result = "false"
    /\ ret.op = "check_connected" => ret.result = "DeviceNotFound"
    /\ (ret.op = "check_all_connected"
        /\ ret.before.device.variant = "Multiple") =>
         ret.result = IF ret.before.device.devs = <<>> THEN "Ok"
                      ELSE "DeviceNotFound"
    /\ (ret.op = "are_connected"
        /\ ret.before.device.variant = "Multiple") =>
         ret.result = Bool(ret.before.device.devs = <<>>)

\* C29 witness: the held device is attached, the enumeration fails, and
\* check_connected() answered device_not_found.
C29_Witness ==
  /\ ~providerUp
  /\ ret.op = "check_connected"
  /\ ret.result = "DeviceNotFound"
  /\ Held(ret.before) \in Range(attached)

====
